---------------------------- MODULE Spec2Model ----------------------------
(***************************************************************************)
(* A state-machine model of the request-defence classes of NEXI CHAT:      *)
(*   DDoSProtection, TrafficShaper            (security-config module)     *)
(*   HoneyPot, BehaviorAnalyzer, AdaptiveProtection, RequestValidator,     *)
(*   stealthProtectionMiddleware              (stealth-protection.js)      *)
(*   RequestFingerprint, ThreatDetector, advancedSecurityMiddleware        *)
(*                                            (advanced-security.js)       *)
(*   PayloadScanner                           (payload-scanner.js)         *)
(*   the identity extractors getIP / getRealIP / ipBlacklistCheck          *)
(*   the route limiters, ipBlacklistCheck, userAgentValidation             *)
(*   BotDetector, botDetectionMiddleware, payloadScanMiddleware            *)
(*   the chat server's message, recall and Channel105 routes               *)
(* Time is Date.now() in milliseconds.  Every class keeps its state in     *)
(* in-memory maps; a map is modelled as a function whose DOMAIN is the set *)
(* of keys present.                                                        *)
(***************************************************************************)
EXTENDS Integers, Sequences, FiniteSets, TLC

VARIABLES
    now,          \* Date.now(), ms
    ticks,        \* number of clock advances so far (bounded per specification)
    requests,     \* DDoSProtection.requests : ip -> list of timestamps
    banned,       \* DDoSProtection.banned   : ip -> bannedUntil
    ddosResult,   \* what the last DDoSProtection.check returned
    maxRequests,  \* DDoSProtection.maxRequests, set by the constructor
    admitted,     \* per identity, the times of its allowed checks that a window can still hold
    buckets,      \* TrafficShaper.buckets : ip -> {tokens, lastRefill}
    shaperResult, \* what the last TrafficShaper.check computed and returned
    req,          \* the request descriptor handed to the identity extractors
    ident,        \* what each identity extractor returned for req
    cache,        \* PayloadScanner.cache : cache key -> {result, time}
    lastIndex,    \* the lastIndex property of each signature RegExp (all are /g)
    lastScan,     \* per input, its most recent PayloadScanner.scan call and
                  \* what it returned
    threatLevel,  \* AdaptiveProtection.threatLevel
    metrics,      \* AdaptiveProtection.metrics
    script,       \* the client: what it sends and how fast
    sent,         \* the number of its requests handled so far
    adjustDue,    \* when AdaptiveProtection's interval timer fires next
    cleanupDue,   \* when RequestFingerprint's interval timer fires next
    trapped,      \* HoneyPot.trapped
    traps,        \* HoneyPot.traps.get('/admin')
    profiles,     \* BehaviorAnalyzer.profiles
    buffer,       \* StealthLogger.buffer
    stealthResult,\* the last reply of stealthProtectionMiddleware
    fingerprints, \* RequestFingerprint.fingerprints
    suspiciousIPs,\* RequestFingerprint.suspiciousIPs
    threats,      \* ThreatDetector.threats
    advResult,    \* the last reply of advancedSecurityMiddleware
    analyzeLog,   \* per identity, every record analyze() was given
    trackLog,     \* per identity, every record track() was given
    fpLog,        \* per fingerprint record, every record it was given
    limiterHits,  \* per route limiter, key -> {totalHits, resetTime}
    ipBlacklist,  \* the ipBlacklist Set
    blacklistTimers, \* the pending setTimeout callbacks of addToBlacklist
    authResult,   \* the last reply of a limiter or blacklist middleware
    messages,     \* db messages : id -> message
    msgTimers,    \* the pending setTimeout callbacks that delete blocked messages
    members,      \* channels.Channel105.members
    password,     \* channels.Channel105.password
    chatResult,   \* the last reply of a chat route
    botSuspicious,\* BotDetector.suspiciousIPs
    verdict,      \* how the last classifier entry point finished
    users,        \* db.js users : id -> the user's nickname
    disk,         \* what users.json, messages.json and channels.json hold
    saveTimeout,  \* db.js saveTimeout: null (0) or the handle of the last timer
    saveTimers,   \* the handles of the save timers that are pending
    timerSeq,     \* the number of save timers started so far
    activeConnections, \* SupabaseConnectionManager.activeConnections : userId -> count
    userListeners,     \* per user, the responses whose 'finish' listener has not run
    connections,       \* ConnectionLimiter.connections : ip -> count
    ipListeners,       \* per IP, the responses whose 'finish' listener has not run
    connResult         \* how the last connection-limit middleware call ended

ddosVars == <<requests, banned, ddosResult, maxRequests, admitted>>
shaperVars == <<buckets, shaperResult>>
identVars == <<req, ident>>
scanVars == <<cache, lastIndex, lastScan>>
adaptVars == <<threatLevel, metrics>>
clockVars == <<now, ticks>>

(***************************************************************************)
(* Generic helpers                                                         *)
(***************************************************************************)
\* Map.set(k, v)
MapSet(m, k, v) == [x \in DOMAIN m \cup {k} |-> IF x = k THEN v ELSE m[x]]

\* Map.delete(k)
MapDel(m, k) == [x \in DOMAIN m \ {k} |-> m[x]]

\* The empty Map
EmptyMap == [x \in {} |-> 0]

\* Math.ceil(a / b) for a >= 0, b > 0
CeilDiv(a, b) == (a + b - 1) \div b

Max(a, b) == IF a >= b THEN a ELSE b
Min(a, b) == IF a <= b THEN a ELSE b

(***************************************************************************)
(* The clock.  The steps are chosen so that the boundaries of the code's   *)
(* comparisons are hit exactly: 1 + 59999 = windowMs, and                  *)
(* 60000 + 3540000 = banDuration.                                          *)
(***************************************************************************)
MaxTicks == 5
ShaperTicks == 3
ScanTicks == 2
MaxTally == 21
MaxSent == 103
MaxHits == 7
AuthTicks == 2
BlacklistTicks == 3
MaxMessages == 1
ChatTicks == 2
MaxBare == 2
BareTicks == 1
MaxUsers == 2
MaxSaves == 3

TimeSteps == {1, 59999, 3540000}

Advance(d, limit) ==
    /\ ticks < limit
    /\ now' = now + d
    /\ ticks' = ticks + 1

(***************************************************************************)
(* DDoSProtection, constructed as                                          *)
(*   new DDoSProtection({ windowMs: 60000, maxRequests: 5 })               *)
(* so that banDuration takes its default of one hour, or as the global     *)
(* instance ddosProtection with maxRequests: 100.                          *)
(***************************************************************************)
windowMs == 60000
banDuration == 3600000

DDoSIPs == {"1.2.3.4", "10.0.0.1"}
whitelist == {"10.0.0.1"}

ReasonBanned == "banned"        \* '您的IP已被临时封禁'
ReasonRate == "rate"            \* '请求频率超过限制'
NoReason == "none"

\* isBanned(ip): the lookup deletes a ban whose expiry has passed
isBanned(ip) == ip \in DOMAIN banned /\ banned[ip] /= 0 /\ ~(now > banned[ip])

bannedAfterLookup(ip) ==
    IF ip \in DOMAIN banned /\ banned[ip] /= 0 /\ now > banned[ip]
    THEN MapDel(banned, ip) ELSE banned

\* a remaining time that is always the full ban
getBanTimeRemainingFull(ip) == banDuration \div 1000

\* getBanTimeRemaining(ip), in whole seconds
getBanTimeRemaining(ip) ==
    IF ~(ip \in DOMAIN banned /\ banned[ip] /= 0) THEN 0
    ELSE Max(0, IF banned[ip] - now >= 0 THEN CeilDiv(banned[ip] - now, 1000) ELSE 0)

\* a filter that lets a timestamp expire after half the window
validRequestsHalfWindow(list) == SelectSeq(list, LAMBDA t : 2 * (now - t) < windowMs)

\* a filter that never lets a timestamp expire
validRequestsNoExpiry(list) == list

\* ipRequests.filter(timestamp => now - timestamp < this.windowMs)
validRequests(list) == SelectSeq(list, LAMBDA t : now - t < windowMs)

\* ban(ip)
ban(ip) == MapSet(bannedAfterLookup(ip), ip, now + banDuration)

\* the allowed checks of an identity that lie less than a window back, with
\* the one made now if there is one
Admitted(ip, times) ==
    LET all == (IF ip \in DOMAIN admitted THEN admitted[ip] ELSE <<>>) \o times
    IN  MapSet(admitted, ip, SelectSeq(all, LAMBDA t : now - t < windowMs))

\* check(req) for the identity ip = getIP(req)
DDoSCheck(ip) ==
    /\ UNCHANGED maxRequests
    /\ IF ip \in whitelist THEN
           /\ ddosResult' = [ip |-> ip, at |-> now, allowed |-> TRUE, reason |-> NoReason,
                             retryAfter |-> 0, remaining |-> -1]
           /\ UNCHANGED <<requests, banned>>
       ELSE IF isBanned(ip) THEN
           /\ ddosResult' = [ip |-> ip, at |-> now, allowed |-> FALSE, reason |-> ReasonBanned,
                             retryAfter |-> getBanTimeRemaining(ip), remaining |-> -1]
           /\ UNCHANGED <<requests, banned>>
       ELSE
           LET had   == IF ip \in DOMAIN requests THEN requests[ip] ELSE <<>>
               reqs1 == MapSet(requests, ip, had)
               valid == validRequests(had)
           IN  IF Len(valid) >= maxRequests THEN
                   /\ banned' = ban(ip)
                   /\ requests' = reqs1
                   /\ ddosResult' = [ip |-> ip, at |-> now, allowed |-> FALSE,
                                     reason |-> ReasonRate,
                                     retryAfter |-> banDuration \div 1000, remaining |-> -1]
               ELSE
                   /\ banned' = bannedAfterLookup(ip)
                   /\ requests' = MapSet(requests, ip, Append(valid, now))
                   /\ ddosResult' = [ip |-> ip, at |-> now, allowed |-> TRUE,
                                     reason |-> NoReason, retryAfter |-> 0,
                                     remaining |-> maxRequests - (Len(valid) + 1)]
    /\ admitted' = IF ip \in whitelist THEN admitted
                   ELSE Admitted(ip, IF ddosResult'.allowed THEN <<now>> ELSE <<>>)

\* cleanup(), run by setInterval
DDoSCleanup ==
    LET keep == {ip \in DOMAIN requests : validRequests(requests[ip]) /= <<>>}
    IN  /\ requests' = [ip \in keep |-> validRequests(requests[ip])]
        /\ banned' = [ip \in {i \in DOMAIN banned : ~(now > banned[i])} |-> banned[ip]]
        /\ UNCHANGED <<ddosResult, maxRequests, admitted>>

\* new DDoSProtection({ maxRequests: max })
DDoSConstructed(max) ==
    /\ requests = EmptyMap
    /\ banned = EmptyMap
    /\ maxRequests = max
    /\ admitted = EmptyMap
    /\ ddosResult = [ip |-> "none", at |-> 0, allowed |-> TRUE, reason |-> NoReason,
                     retryAfter |-> 0, remaining |-> -1]

DDoSInit == DDoSConstructed(5)

\* const ddosProtection = new DDoSProtection({ ..., maxRequests: 100, ... })
DDoSGlobalInit == DDoSConstructed(100)


(***************************************************************************)
(* TrafficShaper, constructed as new TrafficShaper({ bandwidth: 10 }): the *)
(* one option is both the capacity of a bucket and its refill per second.  *)
(* bucket.tokens is a double; the model keeps it in thousandths of a token *)
(* (an integer), which is exact: elapsed is a whole number of ms and       *)
(* bandwidth and size are whole numbers.                                   *)
(***************************************************************************)
bandwidth == 10

Milli == 1000

ShaperIPs == {"1.2.3.4", "5.6.7.8"}
ShaperSizes == {0, 5, 6, 10}
ShaperSteps == {250, 500}

\* a refill without the cap of Math.min
refillUncapped(tokens, elapsed) == tokens + elapsed * bandwidth

\* a refill that fills the bucket whatever time has passed
refillFull(tokens, elapsed) == bandwidth * Milli

\* Math.min(this.bandwidth, bucket.tokens + (elapsed / 1000) * this.bandwidth)
refill(tokens, elapsed) == Min(bandwidth * Milli, tokens + elapsed * bandwidth)

\* check(req, size) for the identity ip = getIP(req)
ShaperCheck(ip, size) ==
    LET bucket  == IF ip \in DOMAIN buckets THEN buckets[ip]
                   ELSE [tokens |-> bandwidth * Milli, lastRefill |-> now]
        elapsed == now - bucket.lastRefill
        tokens  == refill(bucket.tokens, elapsed)
    IN  IF tokens < size * Milli THEN
            /\ buckets' = MapSet(buckets, ip, [tokens |-> tokens, lastRefill |-> now])
            /\ shaperResult' = [ip |-> ip, size |-> size, elapsed |-> elapsed,
                                before |-> bucket.tokens, allowed |-> FALSE,
                                retryAfter |-> CeilDiv(size * Milli - tokens,
                                                       bandwidth * Milli)]
        ELSE
            /\ buckets' = MapSet(buckets, ip, [tokens |-> tokens - size * Milli,
                                               lastRefill |-> now])
            /\ shaperResult' = [ip |-> ip, size |-> size, elapsed |-> elapsed,
                                before |-> bucket.tokens, allowed |-> TRUE,
                                retryAfter |-> 0]

ShaperInit ==
    /\ buckets = EmptyMap
    /\ shaperResult = [ip |-> "none", size |-> 0, elapsed |-> 0, before |-> 0,
                       allowed |-> TRUE, retryAfter |-> 0]

(***************************************************************************)
(* The identity extractors.  A JavaScript string is a sequence of tokens:  *)
(* the blank, the comma, and address texts such as "1.1.1.1" taken whole;  *)
(* a value that may be undefined is a record {def, s}.                     *)
(***************************************************************************)
Undef == [def |-> FALSE, s |-> <<>>]
Str(s) == [def |-> TRUE, s |-> s]

\* JavaScript truthiness of a string-or-undefined value
Truthy(v) == v.def /\ v.s /= <<>>

\* a || b
Or(a, b) == IF Truthy(a) THEN a ELSE b

\* String.prototype.split(',')[0]
RECURSIVE SplitFirst(_)
SplitFirst(s) ==
    IF s = <<>> \/ Head(s) = "," THEN <<>> ELSE <<Head(s)>> \o SplitFirst(Tail(s))

\* String.prototype.trim()
RECURSIVE TrimLeft(_)
TrimLeft(s) == IF s /= <<>> /\ Head(s) = " " THEN TrimLeft(Tail(s)) ELSE s

RECURSIVE TrimRight(_)
TrimRight(s) ==
    IF s /= <<>> /\ s[Len(s)] = " " THEN TrimRight(SubSeq(s, 1, Len(s) - 1)) ELSE s

Trim(s) == TrimRight(TrimLeft(s))

\* req.headers['x-forwarded-for']?.split(',')[0]?.trim()
ForwardedFirstTrimmed(r) ==
    IF r.xff.def THEN Str(Trim(SplitFirst(r.xff.s))) ELSE Undef

\* req.headers['x-forwarded-for']?.split(',')[0]
ForwardedFirst(r) ==
    IF r.xff.def THEN Str(SplitFirst(r.xff.s)) ELSE Undef

\* an extractor that looks at x-real-ip before x-forwarded-for
getIPRealFirst(r) ==
    Or(Or(Or(r.realIp, ForwardedFirstTrimmed(r)), r.remote), Str(<<"unknown">>))

\* getIP(req) of HoneyPot, BehaviorAnalyzer, ThreatDetector, TrafficShaper
getIP(r) ==
    Or(Or(Or(ForwardedFirstTrimmed(r), r.realIp), r.remote), Str(<<"unknown">>))

\* getIP(req) of RequestFingerprint, DDoSProtection: req.socket as well
getIPSocket(r) ==
    Or(Or(Or(Or(ForwardedFirstTrimmed(r), r.realIp), r.remote), r.socket),
       Str(<<"unknown">>))

\* VercelSecurity.getRealIP(req)
getRealIP(r) ==
    Or(Or(Or(r.realIp, ForwardedFirst(r)), r.remote), r.socket)

\* const ip = req.ip || req.connection.remoteAddress   (ipBlacklistCheck)
blacklistIP(r) == Or(r.ip, r.remote)

\* The requests.  req.connection is req.socket in Node, and without
\* 'trust proxy' (never set in this repository) Express gives req.ip the
\* socket's remote address.
ForwardedValues ==
    { Undef, Str(<<>>), Str(<<" ">>), Str(<<"1.1.1.1">>), Str(<<" ", "1.1.1.1", " ">>),
      Str(<<"1.1.1.1", ",", "2.2.2.2">>),
      Str(<<" ", "1.1.1.1", " ", ",", " ", "2.2.2.2">>),
      Str(<<",", "2.2.2.2">>), Str(<<" ", ",", "2.2.2.2">>),
      Str(<<"1.1.1.1", " ", "x">>), Str(<<"2.2.2.2", ",">>),
      Str(<<" ", " ", "2.2.2.2", ",", "1.1.1.1", ",", "3.3.3.3">>) }

RealIpValues == { Undef, Str(<<>>), Str(<<"9.9.9.9">>) }

RemoteValues == { Undef, Str(<<>>), Str(<<"7.7.7.7">>) }

Requests ==
    { [xff |-> x, realIp |-> y, remote |-> z, socket |-> z, ip |-> z] :
        x \in ForwardedValues, y \in RealIpValues, z \in RemoteValues }

Extract(r) ==
    /\ req' = r
    /\ ident' = [done |-> TRUE, getIP |-> getIP(r), getIPSocket |-> getIPSocket(r),
                  getRealIP |-> getRealIP(r), blacklistIP |-> blacklistIP(r)]

IdentInit ==
    /\ req = [xff |-> Undef, realIp |-> Undef, remote |-> Undef, socket |-> Undef,
              ip |-> Undef]
    /\ ident = [done |-> FALSE, getIP |-> Undef, getIPSocket |-> Undef,
                getRealIP |-> Undef, blacklistIP |-> Undef]

(***************************************************************************)
(* PayloadScanner.  The signatures are RegExp objects with the g flag,     *)
(* created once in loadSignatures and kept in this.signatures, so each     *)
(* carries its lastIndex from one test() to the next.                      *)
(***************************************************************************)
cacheTimeout == 300000

\* Object.keys(this.signatures), and the number of patterns of each
SigTypes == <<"xss", "sql", "nosql", "command", "ldap", "xml", "traversal", "ssrf">>

SigCount ==
    [xss |-> 10, sql |-> 9, nosql |-> 5, command |-> 4, ldap |-> 4, xml |-> 4,
     traversal |-> 4, ssrf |-> 7]

\* every signature, in the order scan() walks them: <<type, position>>
RECURSIVE PatternsFrom(_)
PatternsFrom(i) ==
    IF i > Len(SigTypes) THEN <<>>
    ELSE [k \in 1..SigCount[SigTypes[i]] |-> <<SigTypes[i], k>>] \o PatternsFrom(i + 1)

AllPatterns == PatternsFrom(1)

Patterns == {AllPatterns[i] : i \in 1..Len(AllPatterns)}

\* the scanned inputs
Empty == ""
Clean == "hello world"
Script == "<script>alert(1)</script>"
Padded == "hi <script>alert(1)</script>"

ScanInputs == {Empty, Clean, Script, Padded}
ScanTypes == {"all"}               \* the default, which payloadScanMiddleware uses
ScanSteps == {1, 299999}
\* scans that name a category
TypedInputs == {Clean, Script}
TypedScanTypes == {"all", "xss", "sql"}

\* String.prototype.length
Length(text) ==
    CASE text = Empty -> 0
      [] text = Clean -> 11
      [] text = Script -> 25
      [] text = Padded -> 28

\* Where pattern pat matches in text: <<index of the match, index after it>>,
\* in the order of the index.  /<script[\s\S]*?>[\s\S]*?<\/script>/gi is
\* xss 1; no other signature matches one of the inputs above.
MatchSpans(pat, text) ==
    IF pat = <<"xss", 1>> /\ text = Script THEN << <<0, 25>> >>
    ELSE IF pat = <<"xss", 1>> /\ text = Padded THEN << <<3, 28>> >>
    ELSE << >>

\* RegExp.prototype.test of a /g pattern whose lastIndex is from: the search
\* starts at from; a match leaves lastIndex after it, a failure resets it
regexTest(pat, text, from) ==
    LET found == SelectSeq(MatchSpans(pat, text), LAMBDA m : m[1] >= from)
    IN  IF from > Length(text) \/ found = <<>> THEN [matched |-> FALSE, lastIndex |-> 0]
        ELSE [matched |-> TRUE, lastIndex |-> found[1][2]]

\* for (const sigType of typesToCheck) for (const pattern of patterns)
\*     if (pattern.test(inputStr)) findings.push({ type: sigType, pattern })
\* Each pattern is tested once, on its own lastIndex.
TestedTypes(type) == IF type = "all" THEN {SigTypes[i] : i \in 1..Len(SigTypes)} ELSE {type}

FindingsOf(text, type) ==
    LET hits == SelectSeq(AllPatterns,
                    LAMBDA pat : /\ pat[1] \in TestedTypes(type)
                                 /\ regexTest(pat, text, lastIndex[pat]).matched)
    IN  [i \in 1..Len(hits) |-> [type |-> hits[i][1], pattern |-> hits[i]]]

LastIndexAfter(text, type) ==
    [pat \in Patterns |->
        IF pat[1] \in TestedTypes(type) THEN regexTest(pat, text, lastIndex[pat]).lastIndex
        ELSE lastIndex[pat]]

\* calculateConfidence(findings), in tenths
calculateConfidence(findings) ==
    IF Len(findings) = 0 THEN 0
    ELSE IF Len(findings) >= 3 THEN 10
    ELSE Len(findings) * 4

\* getCacheKey(input): the MD5 of the input's text; the type is no part of it
getCacheKey(input) == <<"md5", input>>

\* if (!input) return { malicious: false }
BareResult == [malicious |-> FALSE, findings |-> <<>>, confidence |-> 0, bare |-> TRUE]

\* scan(input, type)
Scan(input, type) ==
    LET key == getCacheKey(input)
        hit == key \in DOMAIN cache /\ now - cache[key].time < cacheTimeout
        findings == FindingsOf(input, type)
        fresh == [malicious |-> Len(findings) > 0, findings |-> findings,
                  confidence |-> calculateConfidence(findings), bare |-> FALSE]
        result == IF input = Empty THEN BareResult
                  ELSE IF hit THEN cache[key].result ELSE fresh
    IN  /\ IF input = Empty \/ hit
           THEN UNCHANGED <<cache, lastIndex>>
           ELSE /\ lastIndex' = LastIndexAfter(input, type)
                /\ cache' = MapSet(cache, key, [result |-> fresh, time |-> now])
        /\ lastScan' = MapSet(lastScan, input,
                              [type |-> type, time |-> now, result |-> result,
                               cached |-> input /= Empty /\ hit])

ScanInit ==
    /\ cache = EmptyMap
    /\ lastIndex = [pat \in Patterns |-> 0]
    /\ lastScan = EmptyMap

(***************************************************************************)
(* AdaptiveProtection                                                      *)
(***************************************************************************)
ZeroMetrics == [totalRequests |-> 0, blockedRequests |-> 0, suspiciousRequests |-> 0]

MetricTypes == {"normal", "blocked", "suspicious"}

\* recordMetric(type), as the metrics it leaves
recordMetric(m, type) ==
    [totalRequests      |-> m.totalRequests + 1,
     blockedRequests    |-> m.blockedRequests + (IF type = "blocked" THEN 1 ELSE 0),
     suspiciousRequests |-> m.suspiciousRequests + (IF type = "suspicious" THEN 1 ELSE 0)]

\* an adjust() that raises the level without the Math.min(10, ...)
adjustedLevelUnclamped(level, m) ==
    IF 10 * m.blockedRequests > m.totalRequests \/ 5 * m.suspiciousRequests > m.totalRequests
    THEN level + 1
    ELSE IF 100 * m.blockedRequests < m.totalRequests
            /\ 20 * m.suspiciousRequests < m.totalRequests
         THEN Max(0, level - 1)
         ELSE level

\* an adjust() that raises the level by two
adjustedLevelTwoSteps(level, m) ==
    IF 10 * m.blockedRequests > m.totalRequests \/ 5 * m.suspiciousRequests > m.totalRequests
    THEN Min(10, level + 2)
    ELSE IF 100 * m.blockedRequests < m.totalRequests
            /\ 20 * m.suspiciousRequests < m.totalRequests
         THEN Max(0, level - 1)
         ELSE level

\* the threatLevel adjust() leaves, for totalRequests > 0:
\*   blockRate > 0.1 || suspiciousRate > 0.2    -> Math.min(10, level + 1)
\*   blockRate < 0.01 && suspiciousRate < 0.05  -> Math.max(0, level - 1)
\* (the rates are quotients of small integers; comparing them as fractions
\* is exact)
adjustedLevel(level, m) ==
    IF 10 * m.blockedRequests > m.totalRequests \/ 5 * m.suspiciousRequests > m.totalRequests
    THEN Min(10, level + 1)
    ELSE IF 100 * m.blockedRequests < m.totalRequests
            /\ 20 * m.suspiciousRequests < m.totalRequests
         THEN Max(0, level - 1)
         ELSE level

\* adjust()
Adjust ==
    IF metrics.totalRequests = 0 THEN UNCHANGED adaptVars
    ELSE /\ threatLevel' = adjustedLevel(threatLevel, metrics)
         /\ metrics' = ZeroMetrics

\* a call of recordMetric(type) on its own
RecordMetric(type) ==
    /\ metrics.totalRequests < MaxTally
    /\ metrics' = recordMetric(metrics, type)
    /\ UNCHANGED threatLevel

\* getProtectionLevel()
getProtectionLevel ==
    IF threatLevel >= 8 THEN "maximum"
    ELSE IF threatLevel >= 5 THEN "high"
    ELSE IF threatLevel >= 3 THEN "medium"
    ELSE "normal"

\* getAdjustedLimits()
getAdjustedLimits ==
    CASE getProtectionLevel = "normal"  -> [requests |-> 100, window |-> 60000]
      [] getProtectionLevel = "medium"  -> [requests |-> 50, window |-> 60000]
      [] getProtectionLevel = "high"    -> [requests |-> 30, window |-> 60000]
      [] getProtectionLevel = "maximum" -> [requests |-> 10, window |-> 60000]

AdaptInit == threatLevel = 0 /\ metrics = ZeroMetrics

(***************************************************************************)
(* The request classifiers.  stealthProtectionMiddleware (HoneyPot,        *)
(* BehaviorAnalyzer, RequestValidator, AdaptiveProtection, StealthLogger)  *)
(* and advancedSecurityMiddleware (RequestFingerprint, ThreatDetector) are *)
(* exported separately and share no state; every request of a client is    *)
(* handed to both.  A client is a script: the headers, paths and methods   *)
(* it cycles through, when it starts and the gap between two of its        *)
(* requests.  The two setInterval timers fire at their due times, before a *)
(* request that arrives at or after them.                                  *)
(***************************************************************************)
adjustInterval == 60000
cleanupInterval == 3600000
maxAge == 3600000
profileCap == 100
fingerprintCap == 100
recentWindow == 60000
threshold == 10
maxBuffer == 1000

\* user-agent texts ("" when the header is absent: every reader applies || '')
NoUA == ""
Browser == "Mozilla/5.0 (X11; Linux x86_64) Firefox/120.0"
Browser2 == "Mozilla/5.0 (Windows NT 10.0) Chrome/119.0"
Curl == "curl/8.0"
Crawler == "Googlebot/2.1"
Sqlmap == "sqlmap/1.5.2"

\* ua.length
uaLength(ua) ==
    CASE ua = NoUA -> 0
      [] ua = Browser -> 45
      [] ua = Browser2 -> 42
      [] ua = Curl -> 8
      [] ua = Crawler -> 13
      [] ua = Sqlmap -> 12

\* /bot|crawler|spider|scraper/i.test(ua)
uaLooksLikeBot(ua) == ua = Crawler

\* an isMaliciousUA that flags every user agent
isMaliciousUAAny(ua) == TRUE

\* ThreatDetector.isMaliciousUA(ua): sqlmap, nikto, nmap, masscan, nessus,
\* openvas, acunetix, burp, metasploit, havij
isMaliciousUA(ua) == ua = Sqlmap

\* Paths are {kind, id}: "/page/<id>", "/login/<id>", "/register/<id>",
\* "/admin/<id>", a path of 2049 characters, a path holding a null byte.
PathKinds == {"page", "login", "register", "admin", "long", "nul"}

\* path.includes(trapPath) for one of HoneyPot's trap paths
hitsTrap(path) == path.kind = "admin"

\* r.path.includes('/login') || r.path.includes('/register')
isLoginPath(path) == path.kind \in {"login", "register"}

Methods == <<"GET", "POST", "PUT", "DELETE", "PATCH">>

A1 == Str(<<"1.2.3.4">>)
A5 == Str(<<"5.6.7.8">>)
A9 == Str(<<"9.9.9.9">>)

Cyc(seq, n) == seq[((n - 1) % Len(seq)) + 1]

\* the n-th request of a script
RequestOf(sc, n) ==
    [xff |-> Undef, realIp |-> Undef, remote |-> Cyc(sc.ips, n),
     socket |-> Cyc(sc.ips, n), ip |-> Cyc(sc.ips, n),
     path |-> [kind |-> Cyc(sc.kinds, n), id |-> (n - 1) % sc.nPaths],
     method |-> Cyc(sc.methods, n),
     ua |-> Cyc(sc.uas, n),
     accept |-> Cyc(sc.accepts, n),
     lang |-> Cyc(sc.langs, n),
     enc |-> TRUE,
     host |-> sc.host,
     forwardedHost |-> sc.forwardedHost,
     bodyDepth |-> sc.bodyDepth]

WellFormed ==
    [ips |-> <<A5>>, uas |-> <<Browser>>, accepts |-> <<TRUE>>, langs |-> <<TRUE>>,
     kinds |-> <<"page">>, nPaths |-> 1, methods |-> <<"GET">>, start |-> 0,
     gap |-> 5000,
     host |-> TRUE, forwardedHost |-> FALSE, bodyDepth |-> 0]

Scanner ==
    [WellFormed EXCEPT !.ips = <<A1>>, !.langs = <<FALSE>>, !.nPaths = 25,
                       !.methods = Methods, !.gap = 1900]

Scripts ==
    { WellFormed,
      [WellFormed EXCEPT !.nPaths = 3],
      [WellFormed EXCEPT !.start = 55000],
      [WellFormed EXCEPT !.gap = 74000],
      [WellFormed EXCEPT !.gap = 50],
      [WellFormed EXCEPT !.gap = 50, !.nPaths = 20],
      [WellFormed EXCEPT !.gap = 50, !.nPaths = 21],
      [WellFormed EXCEPT !.ips = <<A9>>, !.accepts = <<FALSE>>, !.langs = <<FALSE>>],
      [WellFormed EXCEPT !.ips = <<A9>>, !.langs = <<FALSE, TRUE>>],
      [WellFormed EXCEPT !.ips = <<A9>>, !.langs = <<TRUE, FALSE>>, !.gap = 74000],
      [WellFormed EXCEPT !.ips = <<A9>>, !.kinds = <<"login">>, !.methods = <<"POST">>,
                         !.gap = 1000],
      [WellFormed EXCEPT !.ips = <<A9>>, !.kinds = <<"page", "register">>,
                         !.methods = <<"POST">>, !.gap = 1000, !.bodyDepth = 11],
      [WellFormed EXCEPT !.ips = <<A9>>, !.uas = <<Sqlmap>>],
      [WellFormed EXCEPT !.ips = <<A9>>, !.uas = <<Curl>>, !.gap = 50],
      [WellFormed EXCEPT !.ips = <<A9>>, !.uas = <<Crawler>>, !.methods = Methods],
      [WellFormed EXCEPT !.ips = <<A9>>, !.kinds = <<"page", "page", "admin", "page">>,
                         !.nPaths = 4],
      [WellFormed EXCEPT !.ips = <<A9>>, !.kinds = <<"page", "long", "nul">>],
      [WellFormed EXCEPT !.ips = <<A9>>, !.methods = <<"GET", "PATCH">>],
      [WellFormed EXCEPT !.ips = <<A9>>, !.methods = <<"PATCH", "GET", "GET", "GET">>,
                         !.gap = 30000],
      [WellFormed EXCEPT !.ips = <<A9>>, !.host = FALSE],
      [WellFormed EXCEPT !.ips = <<A9>>, !.forwardedHost = TRUE],
      Scanner,
      [Scanner EXCEPT !.gap = 2000],
      [Scanner EXCEPT !.uas = <<Browser, Browser2>>],
      [Scanner EXCEPT !.ips = <<A1, A5>>, !.gap = 900],
      [Scanner EXCEPT !.uas = <<NoUA>>, !.accepts = <<FALSE>>, !.gap = 0] }

\* the time at which the next request of the script arrives
NextArrival == script.start + sent * script.gap

(***************************************************************************)
(* HoneyPot                                                                *)
(***************************************************************************)
\* HoneyPot.check(req): the trap statistics and the trapped set it leaves
honeyPotCheck(r, t) ==
    IF hitsTrap(r.path)
    THEN [hit |-> TRUE, traps |-> [hits |-> traps.hits + 1, lastHit |-> t],
          trapped |-> trapped \cup {getIP(r)}]
    ELSE [hit |-> FALSE, traps |-> traps, trapped |-> trapped]

\* HoneyPot.isTrapped(req)
isTrapped(r) == getIP(r) \in trapped

(***************************************************************************)
(* BehaviorAnalyzer                                                        *)
(***************************************************************************)
\* a slice that keeps the oldest n elements
sliceFirst(list, n) == SubSeq(list, 1, n)

\* Array.prototype.slice(-n) of a list longer than n
sliceLast(list, n) == SubSeq(list, Len(list) - n + 1, Len(list))

\* if (profile.requests.length > 100) profile.requests = profile.requests.slice(-100)
profileKeep(list) == IF Len(list) > profileCap THEN sliceLast(list, profileCap) ELSE list

PathsOf(list) == { list[i].path : i \in DOMAIN list }
MethodsOf(list) == { list[i].method : i \in DOMAIN list }

\* intervals.reduce((a, b) => a + b, 0)
RECURSIVE SumIntervals(_, _)
SumIntervals(list, i) ==
    IF i > Len(list) THEN 0
    ELSE (list[i].time - list[i - 1].time) + SumIntervals(list, i + 1)

scanning(p) == Cardinality(PathsOf(p.requests)) > 20 /\ Len(p.requests) > 30
methodProbing(p) == Cardinality(MethodsOf(p.requests)) > 4
botPattern(p) ==
    p.userAgent = NoUA \/ uaLength(p.userAgent) < 10 \/ uaLooksLikeBot(p.userAgent)
missingHeaders(p) == ~p.hasAccept \/ ~p.hasAcceptLanguage
\* avgInterval < 100, avgInterval = sum / intervals.length
timePattern(p) ==
    /\ Len(p.requests) >= 5
    /\ SumIntervals(p.requests, 2) < 100 * (Len(p.requests) - 1)

One(b) == IF b THEN 1 ELSE 0

\* the number of suspiciousPatterns that hold
patternScore(p) ==
    One(scanning(p)) + One(methodProbing(p)) + One(botPattern(p))
        + One(missingHeaders(p)) + One(timePattern(p))

\* an analyze that takes the header flags from the current request
analyzeRefreshing(r, t) ==
    LET ip == getIP(r)
        kept == profileKeep(Append(IF ip \in DOMAIN profiles THEN profiles[ip].requests
                                   ELSE <<>>,
                                   [time |-> t, path |-> r.path, method |-> r.method]))
        p == [requests |-> kept, userAgent |-> r.ua, hasAccept |-> r.accept,
              hasAcceptLanguage |-> r.lang, score |-> 0]
        score == patternScore(p)
    IN  [suspicious |-> score >= 2, score |-> score, profile |-> [p EXCEPT !.score = score]]

\* BehaviorAnalyzer.analyze(req): the profile it leaves and what it returns
analyze(r, t) ==
    LET ip == getIP(r)
        old == IF ip \in DOMAIN profiles THEN profiles[ip]
               ELSE [requests |-> <<>>, userAgent |-> r.ua, hasAccept |-> r.accept,
                     hasAcceptLanguage |-> r.lang, score |-> 0]
        kept == profileKeep(Append(old.requests,
                                   [time |-> t, path |-> r.path, method |-> r.method]))
        p == [old EXCEPT !.requests = kept]
        score == patternScore(p)
    IN  [suspicious |-> score >= 2, score |-> score, profile |-> [p EXCEPT !.score = score]]

(***************************************************************************)
(* RequestValidator, StealthLogger                                         *)
(***************************************************************************)
checkHeaders(r) == r.host /\ ~r.forwardedHost
checkMethod(r) == r.method \in {"GET", "POST", "PUT", "DELETE", "OPTIONS"}
checkPath(r) == r.path.kind /= "long" /\ r.path.kind /= "nul"
checkBody(r) == r.bodyDepth = 0 \/ ~(r.bodyDepth > 10)

\* RequestValidator.validate(req)
validate(r) == checkHeaders(r) /\ checkMethod(r) /\ checkPath(r) /\ checkBody(r)

\* StealthLogger.log(event, data)
log(buf, t, event, data) ==
    LET pushed == Append(buf, [t |-> t, e |-> event, d |-> data])
    IN  IF Len(pushed) > maxBuffer THEN Tail(pushed) ELSE pushed

(***************************************************************************)
(* stealthProtectionMiddleware(req, res, next) at time t                   *)
(***************************************************************************)
NoAnalysis == [called |-> FALSE, suspicious |-> FALSE, score |-> 0]

StealthReply(n, r, status, delay, a) ==
    [n |-> n, ip |-> getIP(r), status |-> status, delay |-> delay, analysis |-> a]

stealthProtectionMiddleware(n, r, t) ==
    LET hp == honeyPotCheck(r, t)
        ip == getIP(r)
    IN
    /\ traps' = hp.traps
    /\ trapped' = hp.trapped
    /\ IF hp.hit THEN
         /\ metrics' = recordMetric(metrics, "blocked")
         /\ buffer' = log(buffer, t, "honeypot", [path |-> r.path])
         /\ stealthResult' = StealthReply(n, r, "404", 0, NoAnalysis)
         /\ UNCHANGED <<profiles, analyzeLog>>
       ELSE IF isTrapped(r) THEN
         /\ metrics' = recordMetric(metrics, "blocked")
         /\ stealthResult' = StealthReply(n, r, "404", 3000, NoAnalysis)
         /\ UNCHANGED <<profiles, analyzeLog, buffer>>
       ELSE
         LET analysis == analyze(r, t)
             a == [called |-> TRUE, suspicious |-> analysis.suspicious,
                   score |-> analysis.score]
             m1 == IF analysis.suspicious THEN recordMetric(metrics, "suspicious")
                   ELSE metrics
         IN
         /\ profiles' = MapSet(profiles, ip, analysis.profile)
         /\ analyzeLog' = MapSet(analyzeLog, ip,
                Append(IF ip \in DOMAIN analyzeLog THEN analyzeLog[ip] ELSE <<>>,
                       [time |-> t, path |-> r.path, method |-> r.method]))
         /\ buffer' = IF analysis.suspicious
                      THEN log(buffer, t, "suspicious",
                               [score |-> analysis.score, path |-> r.path])
                      ELSE buffer
         /\ IF analysis.suspicious /\ analysis.score >= 4 THEN
              /\ metrics' = recordMetric(m1, "blocked")
              /\ stealthResult' = StealthReply(n, r, "429", 0, a)
            ELSE IF ~validate(r) THEN
              /\ metrics' = recordMetric(m1, "blocked")
              /\ stealthResult' = StealthReply(n, r, "400", 0, a)
            ELSE
              /\ metrics' = recordMetric(m1, "normal")
              /\ stealthResult' = StealthReply(n, r, "next", 0, a)
    /\ UNCHANGED threatLevel

(***************************************************************************)
(* RequestFingerprint                                                      *)
(***************************************************************************)
\* RequestFingerprint.generate(req); the SHA-256 of the joined components
\* is taken as the components themselves
generate(r) ==
    <<r.ua, IF r.lang THEN "en-US" ELSE "", IF r.enc THEN "gzip" ELSE "", getIPSocket(r)>>

\* if (data.requests.length > 100) data.requests = data.requests.slice(-100)
fingerprintKeep(list) ==
    IF Len(list) > fingerprintCap THEN sliceLast(list, fingerprintCap) ELSE list

\* a scanning pattern that needs more than 30 distinct paths
recentScanningWide(recent) == Cardinality(PathsOf(recent)) > 30

\* scanning: new Set(recentRequests.map(r => r.path)).size > 20
recentScanning(recent) == Cardinality(PathsOf(recent)) > 20

\* RequestFingerprint.analyze(fingerprint) on the record data at time t
analyzeFingerprint(data, t) ==
    LET recent == SelectSeq(data.requests, LAMBDA q : t - q.timestamp < recentWindow)
        patterns == [highFrequency |-> Len(recent) > 60,
                     scanning |-> recentScanning(recent),
                     bruteForce |-> Len(SelectSeq(recent,
                                        LAMBDA q : isLoginPath(q.path))) > 5]
    IN  [suspicious |-> patterns.highFrequency \/ patterns.scanning \/ patterns.bruteForce,
         patterns |-> patterns,
         requestCount |-> Len(recent)]

\* RequestFingerprint.track(req): the record it leaves and the analysis it returns
track(r, t) ==
    LET fp == generate(r)
        old == IF fp \in DOMAIN fingerprints THEN fingerprints[fp]
               ELSE [ip |-> getIPSocket(r), requests |-> <<>>, firstSeen |-> t,
                     suspicious |-> FALSE]
        kept == fingerprintKeep(Append(old.requests,
                    [timestamp |-> t, path |-> r.path, method |-> r.method]))
        data == [old EXCEPT !.requests = kept]
        analysis == analyzeFingerprint(data, t)
    IN  [fingerprint |-> fp,
         data |-> [data EXCEPT !.suspicious = @ \/ analysis.suspicious],
         analysis |-> analysis]

\* RequestFingerprint.cleanup() at time t
Cleanup(t) ==
    LET keep == { fp \in DOMAIN fingerprints : ~(t - fingerprints[fp].firstSeen > maxAge) }
    IN  /\ fingerprints' = [fp \in keep |-> fingerprints[fp]]
        /\ fpLog' = [fp \in keep |-> fpLog[fp]]

(***************************************************************************)
(* ThreatDetector                                                          *)
(***************************************************************************)
\* blocked: score >= this.threshold
assessBlocked(score) == score >= threshold

Reason(b, name) == IF b THEN <<name>> ELSE <<>>

\* ThreatDetector.assess(req, analysis): score, reasons, blocked
\* (the reasons are '高频请求', '扫描行为', '暴力破解', '恶意User-Agent',
\* '缺少必要头部' in the source)
assess(r, analysis) ==
    LET missing == ~r.accept \/ ~r.lang
        score == 5 * One(analysis.patterns.highFrequency)
                 + 7 * One(analysis.patterns.scanning)
                 + 10 * One(analysis.patterns.bruteForce)
                 + 8 * One(isMaliciousUA(r.ua))
                 + 3 * One(missing)
        reasons == Reason(analysis.patterns.highFrequency, "highFrequency")
                   \o Reason(analysis.patterns.scanning, "scanning")
                   \o Reason(analysis.patterns.bruteForce, "bruteForce")
                   \o Reason(isMaliciousUA(r.ua), "maliciousUA")
                   \o Reason(missing, "missingHeaders")
    IN  [score |-> score, reasons |-> reasons, blocked |-> assessBlocked(score)]

\* ThreatDetector.getThreatLevel(ip)
getThreatLevel(ip) == IF ip \in DOMAIN threats THEN threats[ip].score ELSE 0

(***************************************************************************)
(* advancedSecurityMiddleware(req, res, next) at time t                    *)
(***************************************************************************)
advancedSecurityMiddleware(n, r, t) ==
    LET tr == track(r, t)
        threat == assess(r, tr.analysis)
        ip == getIP(r)
        old == IF ip \in DOMAIN threats THEN threats[ip]
               ELSE [score |-> 0, incidents |-> <<>>]
        rec == [timestamp |-> t, path |-> r.path, method |-> r.method]
    IN
    /\ fingerprints' = MapSet(fingerprints, tr.fingerprint, tr.data)
    /\ suspiciousIPs' = IF tr.analysis.suspicious
                        THEN suspiciousIPs \cup {tr.data.ip} ELSE suspiciousIPs
    /\ threats' = IF threat.score > 0
                  THEN MapSet(threats, ip,
                         [score |-> old.score + threat.score,
                          incidents |-> Append(old.incidents,
                              [timestamp |-> t, score |-> threat.score,
                               reasons |-> threat.reasons, path |-> r.path])])
                  ELSE threats
    /\ advResult' = [n |-> n, ip |-> ip, score |-> threat.score,
                     reasons |-> threat.reasons, blocked |-> threat.blocked,
                     patterns |-> tr.analysis.patterns,
                     requestCount |-> tr.analysis.requestCount,
                     status |-> IF threat.blocked THEN "403" ELSE "next"]
    /\ trackLog' = MapSet(trackLog, getIPSocket(r),
           Append(IF getIPSocket(r) \in DOMAIN trackLog THEN trackLog[getIPSocket(r)]
                  ELSE <<>>, rec))
    /\ fpLog' = MapSet(fpLog, tr.fingerprint,
           Append(IF tr.fingerprint \in DOMAIN fpLog THEN fpLog[tr.fingerprint]
                  ELSE <<>>, rec))

(***************************************************************************)
(* The client and the timers                                               *)
(***************************************************************************)
stealthVars == <<trapped, traps, profiles, buffer, stealthResult, analyzeLog>>
advancedVars == <<fingerprints, suspiciousIPs, threats, advResult, trackLog, fpLog>>
timerVars == <<adjustDue, cleanupDue>>
pipeVars == <<script, sent, stealthVars, advancedVars, timerVars>>

\* the next request arrives and both middlewares handle it
Deliver ==
    /\ sent < MaxSent
    /\ adjustDue > NextArrival
    /\ cleanupDue > NextArrival
    /\ now' = NextArrival
    /\ sent' = sent + 1
    /\ stealthProtectionMiddleware(sent + 1, RequestOf(script, sent + 1), NextArrival)
    /\ advancedSecurityMiddleware(sent + 1, RequestOf(script, sent + 1), NextArrival)
    /\ UNCHANGED <<script, timerVars, ticks>>

\* setInterval(() => this.adjust(), this.adjustInterval)
AdjustTimer ==
    /\ sent < MaxSent
    /\ adjustDue <= NextArrival
    /\ adjustDue <= cleanupDue
    /\ now' = adjustDue
    /\ adjustDue' = adjustDue + adjustInterval
    /\ Adjust
    /\ UNCHANGED <<script, sent, stealthVars, advancedVars, cleanupDue, ticks>>

\* setInterval(() => this.cleanup(), this.cleanupInterval)
CleanupTimer ==
    /\ sent < MaxSent
    /\ cleanupDue <= NextArrival
    /\ cleanupDue <= adjustDue
    /\ now' = cleanupDue
    /\ cleanupDue' = cleanupDue + cleanupInterval
    /\ Cleanup(cleanupDue)
    /\ UNCHANGED <<script, sent, stealthVars, suspiciousIPs, threats, advResult,
                   trackLog, adjustDue, adaptVars, ticks>>

NoStealthResult ==
    [n |-> 0, ip |-> Undef, status |-> "none", delay |-> 0, analysis |-> NoAnalysis]

NoAdvResult ==
    [n |-> 0, ip |-> Undef, score |-> 0, reasons |-> <<>>, blocked |-> FALSE,
     patterns |-> [highFrequency |-> FALSE, scanning |-> FALSE, bruteForce |-> FALSE],
     requestCount |-> 0, status |-> "none"]

\* the state after the modules are loaded, with no client
PipeIdle ==
    /\ sent = 0
    /\ trapped = {}
    /\ traps = [hits |-> 0, lastHit |-> -1]
    /\ profiles = EmptyMap
    /\ buffer = <<>>
    /\ stealthResult = NoStealthResult
    /\ analyzeLog = EmptyMap
    /\ fingerprints = EmptyMap
    /\ suspiciousIPs = {}
    /\ threats = EmptyMap
    /\ advResult = NoAdvResult
    /\ trackLog = EmptyMap
    /\ fpLog = EmptyMap
    /\ adjustDue = adjustInterval
    /\ cleanupDue = cleanupInterval

PipeInit == script \in Scripts /\ PipeIdle

(***************************************************************************)
(* Specifications: one per class, the other classes' state left alone.     *)
(***************************************************************************)
(***************************************************************************)
(* The route limiters and the IP blacklist of the security middleware.     *)
(* rateLimit({windowMs, max, handler}) counts the requests of a key in a   *)
(* fixed window and calls handler once the count exceeds max.              *)
(***************************************************************************)
authVars == <<limiterHits, ipBlacklist, blacklistTimers, authResult>>

loginWindowMs == 900000
loginMax == 5
registerWindowMs == 3600000
registerMax == 3
toolBlacklistDuration == 86400000

Limiters == {"login", "register"}
AuthIPs == {"1.2.3.4"}
AuthUAs == {NoUA, Browser, Sqlmap}
AuthSteps == {1, 900000, 86400000}
BlacklistIPs == {"1.2.3.4", "5.6.7.8"}
\* 1 hour and 23 hours
BlacklistSteps == {3600000, 82800000}

limiterWindow(l) == IF l = "login" THEN loginWindowMs ELSE registerWindowMs
limiterMax(l) == IF l = "login" THEN loginMax ELSE registerMax

\* skipSuccessfulRequests: true (loginLimiter only)
skipSuccessfulRequests(l) == l = "login"

\* the key's counter in the current window; a window whose resetTime has
\* passed starts again from zero
currentHits(l, ip) ==
    IF ip \in DOMAIN limiterHits[l] /\ now < limiterHits[l][ip].resetTime
    THEN limiterHits[l][ip]
    ELSE [totalHits |-> 0, resetTime |-> now + limiterWindow(l)]

\* ipBlacklist.has(ip)
isBlacklisted(ip) == ip \in ipBlacklist

\* a setTimeout callback runs before any request that arrives after its delay
NoBlacklistTimerDue == \A tm \in blacklistTimers : now < tm.due

\* loginLimiter / registerLimiter handling one request of ip; ok tells
\* whether the route then answers with a success status
RateLimit(l, ip, ok) ==
    LET rec == currentHits(l, ip)
        hits == rec.totalHits + 1
        limited == hits > limiterMax(l)
        kept == IF ~limited /\ ok /\ skipSuccessfulRequests(l) THEN hits - 1 ELSE hits
    IN  /\ NoBlacklistTimerDue
        /\ rec.totalHits < MaxHits
        /\ limiterHits' = [limiterHits EXCEPT
                              ![l] = MapSet(@, ip, [totalHits |-> kept,
                                                    resetTime |-> rec.resetTime])]
        /\ authResult' = [op |-> l, ip |-> ip, at |-> now,
                          status |-> IF limited THEN 429 ELSE IF ok THEN 200 ELSE 401,
                          retryAfter |-> IF limited THEN CeilDiv(rec.resetTime, 1000) ELSE 0]
        /\ UNCHANGED <<ipBlacklist, blacklistTimers>>

\* ipBlacklistCheck(req, res, next)
IpBlacklistCheck(ip) ==
    /\ NoBlacklistTimerDue
    /\ authResult' = [op |-> "blacklist", ip |-> ip, at |-> now,
                      status |-> IF isBlacklisted(ip) THEN 403 ELSE 200,
                      retryAfter |-> 0]
    /\ UNCHANGED <<limiterHits, ipBlacklist, blacklistTimers>>

\* maliciousBots.some(pattern => pattern.test(userAgent))
isMaliciousBot(ua) == ua = Sqlmap

\* userAgentValidation(req, res, next); addToBlacklist(ip, 24 * 3600000)
\* adds ip to the set and starts the timer that deletes it again
UserAgentValidation(ip, ua) ==
    /\ NoBlacklistTimerDue
    /\ IF ua /= NoUA /\ isMaliciousBot(ua)
       THEN /\ ipBlacklist' = ipBlacklist \cup {ip}
            /\ blacklistTimers' =
                  blacklistTimers \cup {[ip |-> ip, due |-> now + toolBlacklistDuration]}
       ELSE UNCHANGED <<ipBlacklist, blacklistTimers>>
    /\ authResult' = [op |-> "userAgent", ip |-> ip, at |-> now,
                      status |-> IF ua = NoUA THEN 400
                                 ELSE IF isMaliciousBot(ua) THEN 403 ELSE 200,
                      retryAfter |-> 0]
    /\ UNCHANGED limiterHits

\* the callback of addToBlacklist's setTimeout
BlacklistTimer(tm) ==
    /\ tm \in blacklistTimers
    /\ tm.due <= now
    /\ ipBlacklist' = ipBlacklist \ {tm.ip}
    /\ blacklistTimers' = blacklistTimers \ {tm}
    /\ UNCHANGED <<limiterHits, authResult>>

AuthInit ==
    /\ limiterHits = [l \in Limiters |-> EmptyMap]
    /\ ipBlacklist = {}
    /\ blacklistTimers = {}
    /\ authResult = [op |-> "none", ip |-> "none", at |-> 0, status |-> 200, retryAfter |-> 0]

(***************************************************************************)
(* The chat server: the message store, the timers that delete blocked      *)
(* messages, message recall, and the private channel Channel105.           *)
(* db is the adapter, whose every method is an async function.             *)
(***************************************************************************)
chatVars == <<messages, msgTimers, members, password, chatResult>>

blockedLifetime == 86400000
recallMinutes == 2
MinuteMs == 60000
NoUserId == 0
NaN == -1

Null == "null"
Recalled == "[recalled]"
DefaultPassword == "123456"
ChatUsers == {1, 2}
SenderIds == {1, 9}
UserIds == {NoUserId, 1, 2}
ChatChannels == {"General", "Channel105"}
PusherChannels == {"presence-Channel105", "presence-General", "private-user-1"}
Attachments == {"text", "both"}
Passwords == {"", DefaultPassword, "hunter2"}
ChatSteps == {1, 120000, 86400000}
MessageIds == 1..(MaxMessages + 1)

\* parseInt(userId); req.userId and body.userId are numbers or undefined
parseInt(u) == IF u = NoUserId THEN NaN ELSE u

\* db.getUserById(userId) finds a user
userExists(u) == u \in ChatUsers

NoMessage == [id |-> 0]

\* jsonDb.getMessageById(id): messages.find(...), undefined when absent
getMessageById(id) == IF id \in DOMAIN messages THEN messages[id] ELSE NoMessage

\* what a call of an async function evaluates to when it is not awaited
Pending(v) == [promise |-> v]

\* msg && msg.is_blocked: a Promise is truthy and has no is_blocked property
foundBlocked(msg) ==
    IF "promise" \in DOMAIN msg THEN FALSE
    ELSE msg /= NoMessage /\ msg.is_blocked

\* jsonDb.insertMessage: the id it assigns
nextMessageId ==
    IF DOMAIN messages = {} THEN 1
    ELSE (CHOOSE m \in DOMAIN messages : \A k \in DOMAIN messages : k <= m) + 1

\* jsonDb.insertMessage(messageData)
insertMessage(u, channel, bad, att) ==
    [id |-> nextMessageId, user_id |-> u, channel |-> channel,
     content |-> IF bad THEN "bad words" ELSE "text",
     image |-> IF att = "both" THEN "image.png" ELSE Null,
     voice |-> IF att = "both" THEN "voice.webm" ELSE Null,
     is_blocked |-> bad, is_recalled |-> FALSE, recalled_at |-> 0,
     created_at |-> now]

\* jsonDb.updateMessage(id, messageData) for the recall's messageData
updateMessage(id, content, t) ==
    MapSet(messages, id, [messages[id] EXCEPT !.content = content, !.image = Null,
                                             !.voice = Null, !.is_recalled = TRUE,
                                             !.recalled_at = t])

\* jsonDb.deleteMessage(id)
deleteMessage(id) == MapDel(messages, id)

\* a setTimeout callback runs before any request that arrives after its delay
NoMsgTimerDue == \A tm \in msgTimers : now < tm.due

Reply(route, status, channel, u, id, ids, pw) ==
    [route |-> route, status |-> status, channel |-> channel, userId |-> u,
     id |-> id, ids |-> ids, password |-> pw]

\* POST /api/pusher/send-message
SendMessage(u, channel, bad, att) ==
    LET newMessage == insertMessage(u, channel, bad, att)
    IN  /\ NoMsgTimerDue
        /\ Cardinality(DOMAIN messages) < MaxMessages
        /\ messages' = MapSet(messages, newMessage.id, newMessage)
        /\ IF ~userExists(u)
           THEN /\ chatResult' = Reply("send", 404, channel, u, newMessage.id, {}, "")
                /\ UNCHANGED msgTimers
           ELSE /\ chatResult' = Reply("send", 200, channel, u, newMessage.id, {}, "")
                /\ msgTimers' =
                      IF newMessage.is_blocked
                      THEN msgTimers \cup {[id |-> newMessage.id,
                                            due |-> now + blockedLifetime,
                                            awaits |-> FALSE]}
                      ELSE msgTimers
        /\ UNCHANGED <<members, password>>

\* the callback of a deletion timer: the one send-message starts reads the
\* message without await, the one the startup cleanup starts awaits it
MsgTimer(tm) ==
    LET msg == IF tm.awaits THEN getMessageById(tm.id)
               ELSE Pending(getMessageById(tm.id))
    IN  /\ tm \in msgTimers
        /\ tm.due <= now
        /\ msgTimers' = msgTimers \ {tm}
        /\ messages' = IF foundBlocked(msg) THEN deleteMessage(tm.id) ELSE messages
        /\ UNCHANGED <<members, password, chatResult>>

\* the process is restarted: its timers are gone, the store is reloaded and
\* the server.listen callback cleans up the blocked messages
Restart ==
    LET blocked == {id \in DOMAIN messages : messages[id].is_blocked}
        young == {id \in blocked : now - messages[id].created_at < blockedLifetime}
    IN  /\ msgTimers' = {[id |-> id, due |-> messages[id].created_at + blockedLifetime,
                          awaits |-> TRUE] : id \in young}
        /\ messages' = [id \in DOMAIN messages \ (blocked \ young) |-> messages[id]]
        /\ chatResult' = Reply("restart", 200, "", NoUserId, 0, {}, "")
        /\ UNCHANGED <<members, password>>

\* an unconditional recall window
withinRecallWindowAlways(created, t) == TRUE

\* timeDiff <= 2 where timeDiff = (now - messageTime) / (1000 * 60)
withinRecallWindow(created, t) == t - created <= recallMinutes * MinuteMs

\* POST /api/pusher/recall-message
RecallMessage(id) ==
    LET message == getMessageById(id)
    IN  /\ NoMsgTimerDue
        /\ IF message = NoMessage
           THEN /\ chatResult' = Reply("recall", 404, "", NoUserId, id, {}, "")
                /\ UNCHANGED messages
           ELSE IF withinRecallWindow(message.created_at, now)
           THEN /\ messages' = updateMessage(id, Recalled, now)
                /\ chatResult' = Reply("recall", 200, "", NoUserId, id, {}, "")
           ELSE /\ chatResult' = Reply("recall", 400, "", NoUserId, id, {}, "")
                /\ UNCHANGED messages
        /\ UNCHANGED <<msgTimers, members, password>>

\* GET /api/messages/:channel
GetMessages(channel, u) ==
    LET visible == {id \in DOMAIN messages :
                       /\ messages[id].channel = channel
                       /\ \/ ~messages[id].is_blocked
                          \/ u /= NoUserId /\ messages[id].user_id = parseInt(u)}
    IN  /\ NoMsgTimerDue
        /\ chatResult' = Reply("messages", 200, channel, u, 0, visible, "")
        /\ UNCHANGED <<messages, msgTimers, members, password>>

\* jsonDb.getChannelByName(name) returns a channel that has a password
isPrivateChannel(channel) == channel = "Channel105" /\ password /= ""

\* jsonDb.isChannelMember('Channel105', userId)
isChannelMember(u) == u \in members

\* POST /api/channel/verify-password
VerifyPassword(channel, pw, u) ==
    /\ NoMsgTimerDue
    /\ IF ~isPrivateChannel(channel)
       THEN /\ chatResult' = Reply("verify", 400, channel, u, 0, {}, pw)
            /\ UNCHANGED members
       ELSE IF password = pw
       THEN /\ members' = members \cup {parseInt(u)}
            /\ chatResult' = Reply("verify", 200, channel, u, 0, {}, pw)
       ELSE /\ chatResult' = Reply("verify", 401, channel, u, 0, {}, pw)
            /\ UNCHANGED members
    /\ UNCHANGED <<messages, msgTimers, password>>

\* DELETE /api/channel/:channel/members/:userId (admin)
RemoveMember(channel, u) ==
    /\ NoMsgTimerDue
    /\ IF ~isPrivateChannel(channel)
       THEN /\ chatResult' = Reply("remove", 400, channel, u, 0, {}, "")
            /\ UNCHANGED members
       ELSE /\ members' = members \ {parseInt(u)}
            /\ chatResult' = Reply("remove", 200, channel, u, 0, {}, "")
    /\ UNCHANGED <<messages, msgTimers, password>>

\* PUT /api/channel/:channel/password (admin)
ChangePassword(channel, newPassword) ==
    /\ NoMsgTimerDue
    /\ IF newPassword = "" \/ ~isPrivateChannel(channel)
       THEN /\ chatResult' = Reply("password", 400, channel, NoUserId, 0, {}, newPassword)
            /\ UNCHANGED password
       ELSE /\ password' = newPassword
            /\ chatResult' = Reply("password", 200, channel, NoUserId, 0, {}, newPassword)
    /\ UNCHANGED <<messages, msgTimers, members>>

\* POST /api/pusher/auth of the server (checksUserId) and of the serverless
\* API (which tests hasAccess alone)
PusherAuth(checksUserId, channel, u) ==
    LET guarded == channel = "presence-Channel105" /\ isPrivateChannel("Channel105")
        hasAccess == isChannelMember(parseInt(u))
        denied == guarded /\ ((checksUserId /\ u = NoUserId) \/ ~hasAccess)
    IN  /\ NoMsgTimerDue
        /\ chatResult' = Reply("auth", IF denied THEN 403 ELSE 200, channel, u, 0, {}, "")
        /\ UNCHANGED <<messages, msgTimers, members, password>>

ChatInit ==
    /\ messages = EmptyMap
    /\ msgTimers = {}
    /\ members = {}
    /\ password = DefaultPassword
    /\ chatResult = Reply("none", 200, "", NoUserId, 0, {}, "")

(***************************************************************************)
(* The five classifier entry points handed a request that carries no       *)
(* user-agent, accept, accept-language or forwarding header and no body,   *)
(* query or params.  A TypeError raised while a middleware runs is the     *)
(* outcome "throw".                                                        *)
(***************************************************************************)
entryVars == <<botSuspicious, verdict>>
storeVars == <<users, disk, saveTimeout, saveTimers, timerSeq>>
connVars == <<activeConnections, userListeners, connections, ipListeners, connResult>>

botWindow == 60000

\* undefined, for req.body, req.query, req.params
Absent == [absent |-> TRUE, values |-> <<>>]

\* v, with no fallback for undefined
OrNothing(v) == v

\* v || {}
OrEmptyObject(v) == IF v.absent THEN [absent |-> FALSE, values |-> <<>>] ELSE v

\* Object.values(v): a TypeError when v is undefined
ObjectValues(v) ==
    IF v.absent THEN [threw |-> TRUE, values |-> <<>>]
    ELSE [threw |-> FALSE, values |-> v.values]

\* const inputs = [...Object.values(req.query || {}), ...(req.body), ...(req.params)]
scanInputsOf(r) ==
    LET q == ObjectValues(OrEmptyObject(r.query))
        b == ObjectValues(OrEmptyObject(r.body))
        p == ObjectValues(OrEmptyObject(r.params))
    IN  [threw |-> q.threw \/ b.threw \/ p.threw,
         values |-> q.values \o b.values \o p.values]

Bare(host, kind, method) ==
    [xff |-> Undef, realIp |-> Undef, remote |-> A1, socket |-> A1, ip |-> A1,
     path |-> [kind |-> kind, id |-> 0], method |-> method, ua |-> NoUA,
     accept |-> FALSE, lang |-> FALSE, enc |-> host, host |-> host,
     forwardedHost |-> FALSE, bodyDepth |-> 0,
     query |-> Absent, body |-> Absent, params |-> Absent,
     connectionClose |-> ~host, dnt |-> host, upgradeInsecure |-> FALSE]

BareRequests ==
    {Bare(host, kind, method) :
        host \in BOOLEAN, kind \in {"page", "admin"}, method \in {"GET", "PATCH"}}

BareSteps == {1, 60000}

Verdict(mw, outcome, status) == [mw |-> mw, outcome |-> outcome, status |-> status]

Outcome(status) == IF status = "next" THEN "next" ELSE "response"

\* the Map key an extractor's result is used as
ipKey(v) == v.s[1]

\* payloadScanMiddleware(req, res, next) for a request without input values
payloadScanMiddleware(r) ==
    LET inputs == scanInputsOf(r)
    IN  /\ inputs.values = <<>>
        /\ verdict' = IF inputs.threw THEN Verdict("scan", "throw", "none")
                      ELSE Verdict("scan", "next", "next")
        /\ UNCHANGED botSuspicious

\* BotDetector.checkRequestPattern(req)
checkRequestPattern(r, t) ==
    LET ip == getIP(r)
    IN  /\ ip \in DOMAIN botSuspicious
        /\ t - botSuspicious[ip].lastSeen < botWindow
        /\ botSuspicious[ip].score > 5

\* knownBots.userAgents.some(pattern => pattern.test(ua))
isKnownBot(ua) == ua \in {Curl, Crawler}

\* BotDetector.calculateBotScore(req)
calculateBotScore(r, t) ==
    (IF r.ua = NoUA THEN 5 ELSE IF isKnownBot(r.ua) THEN 3 ELSE 0)
    + One(~r.accept) + One(~r.lang) + One(~r.enc) + One(r.connectionClose)
    + (IF checkRequestPattern(r, t) THEN 2 ELSE 0)

\* BrowserFingerprint.verify(req).score
browserScore(r) ==
    One(r.ua /= NoUA) + One(r.accept) + One(r.lang) + One(r.enc) + One(r.dnt)
    + One(r.upgradeInsecure)

\* botDetectionMiddleware(req, res, next); no user agent of the model names
\* an automation tool
botDetectionMiddleware(r, t) ==
    LET score == calculateBotScore(r, t)
    IN  /\ botSuspicious' = IF score > 5
                            THEN MapSet(botSuspicious, getIP(r),
                                        [score |-> score, lastSeen |-> t])
                            ELSE botSuspicious
        /\ verdict' = IF score > 7 THEN Verdict("bot", "response", "403")
                      ELSE IF ~(browserScore(r) >= 4)
                      THEN Verdict("bot", "response", "400")
                      ELSE Verdict("bot", "next", "next")

\* ddosProtectionMiddleware(req, res, next)
ddosProtectionMiddleware(r) ==
    /\ DDoSCheck(ipKey(getIPSocket(r)))
    /\ verdict' = IF ddosResult'.allowed THEN Verdict("ddos", "next", "next")
                  ELSE Verdict("ddos", "response", "429")
    /\ UNCHANGED botSuspicious

EntryInit ==
    /\ botSuspicious = EmptyMap
    /\ verdict = Verdict("none", "next", "none")

\* one request handed to one of the entry points
Handle(mw, r) ==
    /\ sent < MaxBare
    /\ sent' = sent + 1
    /\ CASE mw = "stealth" ->
              /\ stealthProtectionMiddleware(sent + 1, r, now)
              /\ verdict' = Verdict("stealth", Outcome(stealthResult'.status),
                                    stealthResult'.status)
              /\ UNCHANGED <<ddosVars, advancedVars, botSuspicious>>
         [] mw = "advanced" ->
              /\ advancedSecurityMiddleware(sent + 1, r, now)
              /\ verdict' = Verdict("advanced", Outcome(advResult'.status),
                                    advResult'.status)
              /\ UNCHANGED <<ddosVars, stealthVars, adaptVars, botSuspicious>>
         [] mw = "scan" ->
              /\ payloadScanMiddleware(r)
              /\ UNCHANGED <<ddosVars, stealthVars, advancedVars, adaptVars>>
         [] mw = "bot" ->
              /\ botDetectionMiddleware(r, now)
              /\ UNCHANGED <<ddosVars, stealthVars, advancedVars, adaptVars>>
         [] mw = "ddos" ->
              /\ ddosProtectionMiddleware(r)
              /\ UNCHANGED <<stealthVars, advancedVars, adaptVars>>
    /\ UNCHANGED <<clockVars, shaperVars, identVars, scanVars, script, timerVars,
                   authVars, chatVars, storeVars, connVars>>

EntryPoints == {"stealth", "advanced", "scan", "bot", "ddos"}

(***************************************************************************)
(* The JSON store (db.js): users, messages and channels in memory, the     *)
(* three files, and the debounced save.  messages, members and password    *)
(* are the store's messages and channels.Channel105.                       *)
(***************************************************************************)
Nicknames == {"admin", "renamed"}
StoreMembers == {NoUserId, 1, 2}

\* JSON.stringify of a number: NaN is written as null
jsonNumber(n) == IF n = NaN THEN "null" ELSE ToString(n)

\* JSON.stringify(users, null, 2), JSON.stringify(messages, null, 2) and
\* JSON.stringify(channels, null, 2)
stringifyUsers(us) == [id \in DOMAIN us |-> [id |-> jsonNumber(id), nickname |-> us[id]]]
stringifyMessages(ms) ==
    [id \in DOMAIN ms |-> [ms[id] EXCEPT !.id = jsonNumber(@), !.user_id = jsonNumber(@)]]
stringifyChannels(pw, ms) ==
    [Channel105 |-> [password |-> pw, members |-> { jsonNumber(m) : m \in ms }]]

\* the three writeFileSync calls of a save
writeFiles(us, ms, pw, mem) ==
    [users |-> stringifyUsers(us), messages |-> stringifyMessages(ms),
     channels |-> stringifyChannels(pw, mem)]

\* a clearTimeout that cancels nothing
clearTimeoutNothing(pending, handle) == pending

\* clearTimeout(saveTimeout): a handle that is not pending is ignored
clearTimeout(pending, handle) == pending \ {handle}

\* saveData(): the timer it replaces and the one it starts
saveData ==
    /\ timerSeq < MaxSaves
    /\ timerSeq' = timerSeq + 1
    /\ saveTimeout' = timerSeq + 1
    /\ saveTimers' = (IF saveTimeout /= 0 THEN clearTimeout(saveTimers, saveTimeout)
                      ELSE saveTimers) \cup {timerSeq + 1}
    /\ UNCHANGED disk

\* saveDataImmediate(), run after the caller's change of users, messages and
\* channels
saveDataImmediate ==
    /\ saveTimeout' = IF saveTimeout /= 0 THEN 0 ELSE saveTimeout
    /\ saveTimers' = IF saveTimeout /= 0 THEN clearTimeout(saveTimers, saveTimeout)
                     ELSE saveTimers
    /\ disk' = writeFiles(users', messages', password', members')
    /\ UNCHANGED timerSeq

\* no save is requested
NoSave == UNCHANGED <<disk, saveTimeout, saveTimers, timerSeq>>

\* the callback of saveData's setTimeout
SaveTimer(handle) ==
    /\ handle \in saveTimers
    /\ saveTimers' = saveTimers \ {handle}
    /\ disk' = writeFiles(users, messages, password, members)
    /\ UNCHANGED <<users, messages, members, password, saveTimeout, timerSeq>>

\* insertUser(userData)
InsertUser(nickname) ==
    LET id == IF DOMAIN users = {} THEN 1
              ELSE (CHOOSE m \in DOMAIN users : \A k \in DOMAIN users : k <= m) + 1
    IN  /\ Cardinality(DOMAIN users) < MaxUsers
        /\ users' = MapSet(users, id, nickname)
        /\ UNCHANGED <<messages, members, password>>
        /\ saveDataImmediate

\* updateUser(id, userData)
UpdateUser(id, nickname) ==
    IF id \notin DOMAIN users
    THEN UNCHANGED <<users, messages, members, password>> /\ NoSave
    ELSE /\ users' = MapSet(users, id, nickname)
         /\ UNCHANGED <<messages, members, password>>
         /\ saveData

\* insertMessage(messageData)
InsertMessage(u, channel, bad, att) ==
    LET newMessage == insertMessage(u, channel, bad, att)
    IN  /\ Cardinality(DOMAIN messages) < MaxMessages
        /\ messages' = MapSet(messages, newMessage.id, newMessage)
        /\ UNCHANGED <<users, members, password>>
        /\ saveData

\* updateMessage(id, messageData) with the messageData of a recall
UpdateMessage(id) ==
    IF id \notin DOMAIN messages
    THEN UNCHANGED <<users, messages, members, password>> /\ NoSave
    ELSE /\ messages' = updateMessage(id, Recalled, now)
         /\ UNCHANGED <<users, members, password>>
         /\ saveData

\* deleteMessage(id)
DeleteMessage(id) ==
    IF id \notin DOMAIN messages
    THEN UNCHANGED <<users, messages, members, password>> /\ NoSave
    ELSE /\ messages' = deleteMessage(id)
         /\ UNCHANGED <<users, members, password>>
         /\ saveData

\* addChannelMember('Channel105', userId)
AddChannelMember(u) ==
    IF parseInt(u) \in members
    THEN UNCHANGED <<users, messages, members, password>> /\ NoSave
    ELSE /\ members' = members \cup {parseInt(u)}
         /\ UNCHANGED <<users, messages, password>>
         /\ saveData

\* removeChannelMember('Channel105', userId)
RemoveChannelMember(u) ==
    IF parseInt(u) \notin members
    THEN UNCHANGED <<users, messages, members, password>> /\ NoSave
    ELSE /\ members' = members \ {parseInt(u)}
         /\ UNCHANGED <<users, messages, password>>
         /\ saveData

\* updateChannelPassword('Channel105', newPassword)
UpdateChannelPassword(newPassword) ==
    /\ password' = newPassword
    /\ UNCHANGED <<users, messages, members>>
    /\ saveDataImmediate

\* loadData() on a data directory without files: the defaults are written
StoreInit ==
    /\ users = (1 :> "admin")
    /\ disk = writeFiles(1 :> "admin", EmptyMap, DefaultPassword, {})
    /\ saveTimeout = 0
    /\ saveTimers = {}
    /\ timerSeq = 0

\* what the store leaves alone
StoreFrame ==
    UNCHANGED <<now, ticks, requests, banned, ddosResult, maxRequests, admitted, buckets,
                shaperResult, req, ident, cache, lastIndex, lastScan, threatLevel, metrics,
                script, sent, adjustDue, cleanupDue, trapped, traps, profiles, buffer,
                stealthResult, fingerprints, suspiciousIPs, threats, advResult, analyzeLog,
                trackLog, fpLog, limiterHits, ipBlacklist, blacklistTimers, authResult,
                msgTimers, chatResult, botSuspicious, verdict, activeConnections,
                userListeners, connections, ipListeners, connResult>>

\* the exported functions of db.js and the save timer, in any interleaving
StoreNext ==
    \/ \E nickname \in Nicknames : InsertUser(nickname) /\ StoreFrame
    \/ \E id \in 1..MaxUsers, nickname \in Nicknames : UpdateUser(id, nickname) /\ StoreFrame
    \/ \E u \in SenderIds, bad \in BOOLEAN :
          InsertMessage(u, "General", bad, "text") /\ StoreFrame
    \/ \E id \in MessageIds : UpdateMessage(id) /\ StoreFrame
    \/ \E id \in MessageIds : DeleteMessage(id) /\ StoreFrame
    \/ \E u \in StoreMembers : AddChannelMember(u) /\ StoreFrame
    \/ \E u \in StoreMembers : RemoveChannelMember(u) /\ StoreFrame
    \/ \E pw \in {DefaultPassword, "hunter2"} : UpdateChannelPassword(pw) /\ StoreFrame
    \/ UNCHANGED <<users, messages, members, password>> /\ saveData /\ StoreFrame
    \/ UNCHANGED <<users, messages, members, password>> /\ saveDataImmediate /\ StoreFrame
    \/ \E handle \in saveTimers : SaveTimer(handle) /\ StoreFrame

(***************************************************************************)
(* The connection-limit middlewares: supabaseConnectionLimitMiddleware     *)
(* over SupabaseConnectionManager (5 connections per user) and             *)
(* connectionLimitMiddleware over a ConnectionLimiter constructed as       *)
(* new ConnectionLimiter(3).  A response emits 'finish' once.              *)
(***************************************************************************)
maxConnectionsPerUser == 5
maxConnections == 3

ConnUsers == {1, 2}
ConnIPs == {"1.2.3.4"}

\* this.activeConnections.get(userId) || 0, this.connections.get(ip) || 0
countOf(map, key) == IF key \in DOMAIN map THEN map[key] ELSE 0

\* a limit test that lets one connection more through
checkConnectionLimitOver(userId) ==
    ~(countOf(activeConnections, userId) > maxConnectionsPerUser)

\* checkConnectionLimit(userId).allowed
checkConnectionLimit(userId) ==
    ~(countOf(activeConnections, userId) >= maxConnectionsPerUser)

\* addConnection(userId)
addConnection(userId) ==
    MapSet(activeConnections, userId, countOf(activeConnections, userId) + 1)

\* removeConnection(userId)
removeConnection(userId) ==
    IF countOf(activeConnections, userId) > 0
    THEN MapSet(activeConnections, userId, countOf(activeConnections, userId) - 1)
    ELSE activeConnections

ConnReply(mw, key, status) == [mw |-> mw, key |-> key, status |-> status]

\* supabaseConnectionLimitMiddleware(req, res, next); userId is req.userId ||
\* req.user?.id, undefined for a request without a user
SupabaseConnectionLimit(userId) ==
    /\ IF userId = NoUserId THEN
           /\ connResult' = ConnReply("supabase", ToString(userId), "next")
           /\ UNCHANGED <<activeConnections, userListeners>>
       ELSE IF ~checkConnectionLimit(userId) THEN
           /\ connResult' = ConnReply("supabase", ToString(userId), "429")
           /\ UNCHANGED <<activeConnections, userListeners>>
       ELSE
           /\ activeConnections' = addConnection(userId)
           /\ userListeners' = MapSet(userListeners, userId, countOf(userListeners, userId) + 1)
           /\ connResult' = ConnReply("supabase", ToString(userId), "next")
    /\ UNCHANGED <<connections, ipListeners>>

\* res.on('finish', () => connectionManager.removeConnection(userId))
SupabaseFinish(userId) ==
    /\ countOf(userListeners, userId) > 0
    /\ userListeners' = MapSet(userListeners, userId, userListeners[userId] - 1)
    /\ activeConnections' = removeConnection(userId)
    /\ UNCHANGED <<connections, ipListeners, connResult>>

\* connectionManager.cleanup(), run by setInterval every minute
SupabaseCleanup ==
    /\ activeConnections' =
          [u \in {k \in DOMAIN activeConnections : activeConnections[k] /= 0}
              |-> activeConnections[u]]
    /\ UNCHANGED <<userListeners, connections, ipListeners, connResult>>

\* ConnectionLimiter.check(req).allowed for ip = getIP(req)
limiterCheck(ip) == ~(countOf(connections, ip) >= maxConnections)

\* connectionLimitMiddleware(req, res, next)
ConnectionLimit(ip) ==
    /\ IF ~limiterCheck(ip) THEN
           /\ connResult' = ConnReply("limiter", ip, "503")
           /\ UNCHANGED <<connections, ipListeners>>
       ELSE
           /\ connections' = MapSet(connections, ip, countOf(connections, ip) + 1)
           /\ ipListeners' = MapSet(ipListeners, ip, countOf(ipListeners, ip) + 1)
           /\ connResult' = ConnReply("limiter", ip, "next")
    /\ UNCHANGED <<activeConnections, userListeners>>

\* res.on('finish', () => connectionLimiter.remove(req))
ConnectionFinish(ip) ==
    /\ countOf(ipListeners, ip) > 0
    /\ ipListeners' = MapSet(ipListeners, ip, ipListeners[ip] - 1)
    /\ connections' = IF countOf(connections, ip) > 0
                      THEN MapSet(connections, ip, countOf(connections, ip) - 1)
                      ELSE connections
    /\ UNCHANGED <<activeConnections, userListeners, connResult>>

ConnInit ==
    /\ activeConnections = EmptyMap
    /\ userListeners = EmptyMap
    /\ connections = EmptyMap
    /\ ipListeners = EmptyMap
    /\ connResult = ConnReply("none", "none", "none")

\* what the connection-limit middlewares leave alone
ConnFrame ==
    UNCHANGED <<now, ticks, requests, banned, ddosResult, maxRequests, admitted, buckets,
                shaperResult, req, ident, cache, lastIndex, lastScan, threatLevel, metrics,
                script, sent, adjustDue, cleanupDue, trapped, traps, profiles, buffer,
                stealthResult, fingerprints, suspiciousIPs, threats, advResult, analyzeLog,
                trackLog, fpLog, limiterHits, ipBlacklist, blacklistTimers, authResult,
                messages, msgTimers, members, password, chatResult, botSuspicious, verdict,
                users, disk, saveTimeout, saveTimers, timerSeq>>

\* arrivals, rejections, completions and sweeps in any interleaving
ConnNext ==
    \/ \E userId \in ConnUsers \cup {NoUserId} : SupabaseConnectionLimit(userId) /\ ConnFrame
    \/ \E userId \in ConnUsers : SupabaseFinish(userId) /\ ConnFrame
    \/ SupabaseCleanup /\ ConnFrame
    \/ \E ip \in ConnIPs : ConnectionLimit(ip) /\ ConnFrame
    \/ \E ip \in ConnIPs : ConnectionFinish(ip) /\ ConnFrame

serverVars == <<authVars, chatVars, entryVars, storeVars, connVars>>

vars == <<now, ticks, requests, banned, ddosResult, maxRequests, admitted, buckets, shaperResult, req, ident,
          cache, lastIndex, lastScan, threatLevel, metrics, script, sent, adjustDue,
          cleanupDue, trapped, traps, profiles, buffer, stealthResult, fingerprints,
          suspiciousIPs, threats, advResult, analyzeLog, trackLog, fpLog, limiterHits,
          ipBlacklist, blacklistTimers, authResult, messages, msgTimers, members,
          password, chatResult, botSuspicious, verdict, users, disk, saveTimeout, saveTimers, timerSeq,
          activeConnections, userListeners, connections, ipListeners, connResult>>

ClockInit == now = 0 /\ ticks = 0

Quiet ==
    /\ ClockInit /\ DDoSInit /\ ShaperInit /\ IdentInit /\ ScanInit /\ AdaptInit
    /\ AuthInit /\ ChatInit /\ EntryInit /\ StoreInit /\ ConnInit

Init == Quiet /\ script = WellFormed /\ PipeIdle

InitPipeline == Quiet /\ PipeInit

DDoSNext ==
    \/ \E ip \in DDoSIPs : DDoSCheck(ip) /\ UNCHANGED <<clockVars, shaperVars, identVars, scanVars, adaptVars, pipeVars, serverVars>>
    \/ DDoSCleanup /\ UNCHANGED <<clockVars, shaperVars, identVars, scanVars, adaptVars, pipeVars, serverVars>>
    \/ \E d \in TimeSteps :
          Advance(d, MaxTicks) /\ UNCHANGED <<ddosVars, shaperVars, identVars, scanVars, adaptVars, pipeVars, serverVars>>

SpecDDoS == Init /\ [][DDoSNext]_vars

\* the global limiter beside AdaptiveProtection: requests of one identity at
\* one instant, blocked requests recorded and the adjust() timer
InitLimiter ==
    /\ ClockInit /\ DDoSGlobalInit /\ ShaperInit /\ IdentInit /\ ScanInit /\ AdaptInit
    /\ AuthInit /\ ChatInit /\ EntryInit /\ StoreInit /\ ConnInit
    /\ script = WellFormed /\ PipeIdle

LimiterNext ==
    \/ DDoSCheck("1.2.3.4")
          /\ UNCHANGED <<clockVars, shaperVars, identVars, scanVars, adaptVars, pipeVars, serverVars>>
    \/ RecordMetric("blocked")
          /\ UNCHANGED <<clockVars, ddosVars, shaperVars, identVars, scanVars, pipeVars, serverVars>>
    \/ Adjust /\ UNCHANGED <<clockVars, ddosVars, shaperVars, identVars, scanVars, pipeVars, serverVars>>

SpecLimiter == InitLimiter /\ [][LimiterNext]_vars

ShaperNext ==
    \/ \E ip \in ShaperIPs, size \in ShaperSizes :
          ShaperCheck(ip, size) /\ UNCHANGED <<clockVars, ddosVars, identVars, scanVars, adaptVars, pipeVars, serverVars>>
    \/ \E d \in ShaperSteps :
          Advance(d, ShaperTicks) /\ UNCHANGED <<ddosVars, shaperVars, identVars, scanVars, adaptVars, pipeVars, serverVars>>

SpecShaper == Init /\ [][ShaperNext]_vars

IdentNext ==
    \E r \in Requests : Extract(r) /\ UNCHANGED <<clockVars, ddosVars, shaperVars, scanVars, adaptVars, pipeVars, serverVars>>

SpecIdent == Init /\ [][IdentNext]_vars

ScanNext ==
    \/ \E input \in ScanInputs, type \in ScanTypes :
          Scan(input, type) /\ UNCHANGED <<clockVars, ddosVars, shaperVars, identVars, adaptVars, pipeVars, serverVars>>
    \/ \E d \in ScanSteps :
          Advance(d, ScanTicks) /\ UNCHANGED <<ddosVars, shaperVars, identVars, scanVars, adaptVars, pipeVars, serverVars>>

SpecScan == Init /\ [][ScanNext]_vars

\* scans of one scanner with the default type and with named categories
TypedScanNext ==
    \/ \E input \in TypedInputs, type \in TypedScanTypes :
          Scan(input, type) /\ UNCHANGED <<clockVars, ddosVars, shaperVars, identVars, adaptVars, pipeVars, serverVars>>
    \/ \E d \in ScanSteps :
          Advance(d, ScanTicks) /\ UNCHANGED <<ddosVars, shaperVars, identVars, scanVars, adaptVars, pipeVars, serverVars>>

SpecTypedScan == Init /\ [][TypedScanNext]_vars

\* recordMetric and the adjust() timer in any interleaving
AdaptNext ==
    \/ \E type \in MetricTypes :
          RecordMetric(type)
          /\ UNCHANGED <<clockVars, ddosVars, shaperVars, identVars, scanVars, pipeVars, serverVars>>
    \/ Adjust /\ UNCHANGED <<clockVars, ddosVars, shaperVars, identVars, scanVars, pipeVars, serverVars>>

SpecAdapt == Init /\ [][AdaptNext]_vars

\* the route limiters, the blacklist middlewares and the blacklist timers
AuthNext ==
    \/ \E l \in Limiters, ip \in AuthIPs, ok \in BOOLEAN :
          RateLimit(l, ip, ok)
          /\ UNCHANGED <<clockVars, ddosVars, shaperVars, identVars, scanVars, adaptVars, pipeVars, chatVars, entryVars, storeVars, connVars>>
    \/ \E ip \in AuthIPs :
          IpBlacklistCheck(ip)
          /\ UNCHANGED <<clockVars, ddosVars, shaperVars, identVars, scanVars, adaptVars, pipeVars, chatVars, entryVars, storeVars, connVars>>
    \/ \E ip \in AuthIPs, ua \in AuthUAs :
          UserAgentValidation(ip, ua)
          /\ UNCHANGED <<clockVars, ddosVars, shaperVars, identVars, scanVars, adaptVars, pipeVars, chatVars, entryVars, storeVars, connVars>>
    \/ \E tm \in blacklistTimers :
          BlacklistTimer(tm)
          /\ UNCHANGED <<clockVars, ddosVars, shaperVars, identVars, scanVars, adaptVars, pipeVars, chatVars, entryVars, storeVars, connVars>>
    \/ \E d \in AuthSteps :
          Advance(d, AuthTicks)
          /\ UNCHANGED <<ddosVars, shaperVars, identVars, scanVars, adaptVars, pipeVars, serverVars>>

SpecAuth == Init /\ [][AuthNext]_vars

\* the IP blacklist alone: detections, checks and timer callbacks
BlacklistNext ==
    \/ \E ip \in BlacklistIPs :
          IpBlacklistCheck(ip)
          /\ UNCHANGED <<clockVars, ddosVars, shaperVars, identVars, scanVars, adaptVars, pipeVars, chatVars, entryVars, storeVars, connVars>>
    \/ \E ip \in BlacklistIPs, ua \in AuthUAs :
          UserAgentValidation(ip, ua)
          /\ UNCHANGED <<clockVars, ddosVars, shaperVars, identVars, scanVars, adaptVars, pipeVars, chatVars, entryVars, storeVars, connVars>>
    \/ \E tm \in blacklistTimers :
          BlacklistTimer(tm)
          /\ UNCHANGED <<clockVars, ddosVars, shaperVars, identVars, scanVars, adaptVars, pipeVars, chatVars, entryVars, storeVars, connVars>>
    \/ \E d \in BlacklistSteps :
          Advance(d, BlacklistTicks)
          /\ UNCHANGED <<ddosVars, shaperVars, identVars, scanVars, adaptVars, pipeVars, serverVars>>

SpecBlacklist == Init /\ [][BlacklistNext]_vars

\* the chat routes, the deletion timers and restarts of the process
ChatNext ==
    \/ \E u \in SenderIds, bad \in BOOLEAN, att \in Attachments :
          SendMessage(u, "General", bad, att)
          /\ UNCHANGED <<clockVars, ddosVars, shaperVars, identVars, scanVars, adaptVars, pipeVars, authVars, entryVars, storeVars, connVars>>
    \/ \E tm \in msgTimers :
          MsgTimer(tm)
          /\ UNCHANGED <<clockVars, ddosVars, shaperVars, identVars, scanVars, adaptVars, pipeVars, authVars, entryVars, storeVars, connVars>>
    \/ Restart
          /\ UNCHANGED <<clockVars, ddosVars, shaperVars, identVars, scanVars, adaptVars, pipeVars, authVars, entryVars, storeVars, connVars>>
    \/ \E id \in MessageIds :
          RecallMessage(id)
          /\ UNCHANGED <<clockVars, ddosVars, shaperVars, identVars, scanVars, adaptVars, pipeVars, authVars, entryVars, storeVars, connVars>>
    \/ \E d \in ChatSteps :
          Advance(d, ChatTicks)
          /\ UNCHANGED <<ddosVars, shaperVars, identVars, scanVars, adaptVars, pipeVars, serverVars>>

SpecChat == Init /\ [][ChatNext]_vars

\* the routes of Channel105 and the message list
ChannelNext ==
    \/ \E u \in ChatUsers, bad \in BOOLEAN :
          SendMessage(u, "Channel105", bad, "text")
          /\ UNCHANGED <<clockVars, ddosVars, shaperVars, identVars, scanVars, adaptVars, pipeVars, authVars, entryVars, storeVars, connVars>>
    \/ \E channel \in ChatChannels, u \in UserIds :
          GetMessages(channel, u)
          /\ UNCHANGED <<clockVars, ddosVars, shaperVars, identVars, scanVars, adaptVars, pipeVars, authVars, entryVars, storeVars, connVars>>
    \/ \E channel \in ChatChannels, pw \in Passwords, u \in UserIds :
          VerifyPassword(channel, pw, u)
          /\ UNCHANGED <<clockVars, ddosVars, shaperVars, identVars, scanVars, adaptVars, pipeVars, authVars, entryVars, storeVars, connVars>>
    \/ \E channel \in ChatChannels, u \in UserIds :
          RemoveMember(channel, u)
          /\ UNCHANGED <<clockVars, ddosVars, shaperVars, identVars, scanVars, adaptVars, pipeVars, authVars, entryVars, storeVars, connVars>>
    \/ \E channel \in ChatChannels, pw \in Passwords :
          ChangePassword(channel, pw)
          /\ UNCHANGED <<clockVars, ddosVars, shaperVars, identVars, scanVars, adaptVars, pipeVars, authVars, entryVars, storeVars, connVars>>
    \/ \E checksUserId \in BOOLEAN, channel \in PusherChannels, u \in UserIds :
          PusherAuth(checksUserId, channel, u)
          /\ UNCHANGED <<clockVars, ddosVars, shaperVars, identVars, scanVars, adaptVars, pipeVars, authVars, entryVars, storeVars, connVars>>

SpecChannel == Init /\ [][ChannelNext]_vars

\* bare requests handed to the entry points in any order
BareNext ==
    \/ \E mw \in EntryPoints, r \in BareRequests : Handle(mw, r)
    \/ \E d \in BareSteps :
          Advance(d, BareTicks)
          /\ UNCHANGED <<ddosVars, shaperVars, identVars, scanVars, adaptVars, pipeVars, serverVars>>

SpecBare == Init /\ [][BareNext]_vars

SpecStore == Init /\ [][StoreNext]_vars

SpecConn == Init /\ [][ConnNext]_vars

\* a client's requests through both middlewares, and the two timers
PipelineNext ==
    \/ Deliver /\ UNCHANGED <<ddosVars, shaperVars, identVars, scanVars, serverVars>>
    \/ AdjustTimer /\ UNCHANGED <<ddosVars, shaperVars, identVars, scanVars, serverVars>>
    \/ CleanupTimer /\ UNCHANGED <<ddosVars, shaperVars, identVars, scanVars, serverVars>>

SpecPipeline == InitPipeline /\ [][PipelineNext]_vars

(***************************************************************************)
(* Claims about DDoSProtection                                             *)
(***************************************************************************)
\* the number of recorded requests of ip that are less than windowMs old
C1_InWindow(ip) ==
    IF ip \in DOMAIN requests
    THEN Cardinality({i \in 1..Len(requests[ip]) : now - requests[ip][i] < windowMs})
    ELSE 0

\* a ban record of ip exists and now has not passed its expiry
C1_BanActive(ip) == ip \in DOMAIN banned /\ now <= banned[ip]

\* C1 as stated: a pure fixed-window limiter.  A check of a non-whitelisted
\* identity is allowed while fewer than maxRequests of its requests lie in the
\* window, and denied with a positive retry-after otherwise; in particular a
\* check made after the window has elapsed is allowed again.
C1_Original ==
    [][\A ip \in DDoSIPs \ whitelist :
          DDoSCheck(ip) =>
              /\ (C1_InWindow(ip) < maxRequests => ddosResult'.allowed)
              /\ (C1_InWindow(ip) >= maxRequests =>
                      ~ddosResult'.allowed /\ ddosResult'.retryAfter > 0)]_vars

\* C1 amended: the limiter bans.  While no ban is active the first maxRequests
\* checks inside a window are allowed; the next one is denied with retry-after
\* banDuration/1000 s (positive) and bans the identity until now + banDuration;
\* while the ban is active every check is denied, whether or not the window
\* has elapsed, and once it has expired the counter decides again.
C1_LimiterBans ==
    [][\A ip \in DDoSIPs \ whitelist :
          DDoSCheck(ip) =>
              /\ (~C1_BanActive(ip) /\ C1_InWindow(ip) < maxRequests =>
                      /\ ddosResult'.allowed
                      /\ ddosResult'.remaining = maxRequests - C1_InWindow(ip) - 1
                      /\ ip \notin DOMAIN banned')
              /\ (~C1_BanActive(ip) /\ C1_InWindow(ip) >= maxRequests =>
                      /\ ~ddosResult'.allowed
                      /\ ddosResult'.reason = ReasonRate
                      /\ ddosResult'.retryAfter = banDuration \div 1000
                      /\ ddosResult'.retryAfter > 0
                      /\ banned'[ip] = now + banDuration)
              /\ (C1_BanActive(ip) =>
                      /\ ~ddosResult'.allowed
                      /\ ddosResult'.reason = ReasonBanned
                      /\ UNCHANGED <<requests, banned>>)]_vars

\* the sixth check of a window has just been denied and has banned the identity
C1_Witness ==
    /\ ddosResult.ip = "1.2.3.4" /\ ~ddosResult.allowed /\ ddosResult.reason = ReasonRate
    /\ ddosResult.at = now
    /\ "1.2.3.4" \in DOMAIN requests /\ C1_InWindow("1.2.3.4") = maxRequests
    /\ "1.2.3.4" \in DOMAIN banned /\ banned["1.2.3.4"] = now + banDuration


(***************************************************************************)
(* Claims about TrafficShaper                                              *)
(***************************************************************************)
\* C4: with capacity 10 and 10 tokens per second, a bucket that has been
\* drained to zero holds exactly 5 tokens 500 ms later: the next check is
\* allowed exactly when its cost is at most 5 (so 5 passes, 6 and 10 do not),
\* and an allowed one leaves 5 - cost tokens.
C4_HalfRefill ==
    [][\A ip \in ShaperIPs, size \in ShaperSizes :
          (/\ ShaperCheck(ip, size)
           /\ ip \in DOMAIN buckets
           /\ buckets[ip].tokens = 0
           /\ now - buckets[ip].lastRefill = 500)
          => /\ shaperResult'.allowed <=> size <= 5
             /\ shaperResult'.allowed => buckets'[ip].tokens = (5 - size) * Milli
             /\ ~shaperResult'.allowed => buckets'[ip].tokens = 5 * Milli]_vars

\* a check of cost 5 has just been allowed 500 ms after the bucket was emptied
C4_Witness ==
    /\ shaperResult.ip = "1.2.3.4" /\ shaperResult.size = 5 /\ shaperResult.allowed
    /\ shaperResult.before = 0 /\ shaperResult.elapsed = 500
    /\ buckets["1.2.3.4"] = [tokens |-> 0, lastRefill |-> now]

\* C21: after every TrafficShaper.check the identity's token balance is
\* between 0 and the capacity; a denied check consumes no tokens (it leaves
\* the lazily refilled balance), and an allowed check lowers the lazily
\* refilled balance by exactly its cost.  Costs are non-negative and the clock
\* never goes back.
C21_Balance ==
    [][\A ip \in ShaperIPs, size \in ShaperSizes :
          ShaperCheck(ip, size) =>
              LET before == IF ip \in DOMAIN buckets THEN buckets[ip].tokens
                            ELSE bandwidth * Milli
                  since == IF ip \in DOMAIN buckets THEN now - buckets[ip].lastRefill
                           ELSE 0
                  grown == before + since * bandwidth
                  refilled == IF grown > bandwidth * Milli THEN bandwidth * Milli ELSE grown
              IN  /\ buckets'[ip].tokens >= 0
                  /\ buckets'[ip].tokens <= bandwidth * Milli
                  /\ ~shaperResult'.allowed =>
                        /\ buckets'[ip].tokens = refilled
                        /\ buckets'[ip].tokens >= before
                  /\ shaperResult'.allowed =>
                        buckets'[ip].tokens = refilled - size * Milli]_vars

\* a check of cost 10 has just been denied 750 ms after the bucket was
\* emptied, and one of cost 5 would overfill the bucket without the cap
C21_Witness ==
    /\ shaperResult.size = 10 /\ ~shaperResult.allowed
    /\ shaperResult.before = 0 /\ shaperResult.elapsed = 750
    /\ buckets[shaperResult.ip].tokens = 7500

\* C24: for every non-whitelisted identity, every time interval of length
\* windowMs, taken as the windowMs milliseconds up to and including one of
\* its allowed checks, holds at most maxRequests allowed checks of that
\* identity, whatever checks, cleanup sweeps and ban expiries came before.
C24_WindowBound ==
    \A ip \in DOMAIN admitted \ whitelist :
        \A i \in DOMAIN admitted[ip] :
            Cardinality({ j \in DOMAIN admitted[ip] :
                            /\ admitted[ip][j] <= admitted[ip][i]
                            /\ admitted[ip][i] - admitted[ip][j] < windowMs })
                <= maxRequests

\* more than a ban's duration after the start an identity has just filled its
\* window with allowed checks made at two different moments
C24_Witness ==
    /\ now > banDuration
    /\ "1.2.3.4" \notin DOMAIN banned
    /\ ddosResult.ip = "1.2.3.4" /\ ddosResult.allowed /\ ddosResult.remaining = 0
    /\ Len(admitted["1.2.3.4"]) = maxRequests
    /\ admitted["1.2.3.4"][1] < admitted["1.2.3.4"][maxRequests]

\* C25: while an identity is banned, every check of it is denied with
\* retryAfter equal to the ban's remaining time in whole seconds (rounded
\* up), and the check changes neither the identity's recorded request
\* timestamps nor its bannedUntil: a request made during a ban neither
\* extends nor shortens it.
C25_BanFrame ==
    [][\A ip \in DDoSIPs \ whitelist :
          (DDoSCheck(ip) /\ ip \in DOMAIN banned /\ banned[ip] >= now) =>
              LET remaining == banned[ip] - now
                  secs == ddosResult'.retryAfter
              IN  /\ ~ddosResult'.allowed
                  /\ ddosResult'.reason = ReasonBanned
                  /\ secs >= 0
                  /\ secs * 1000 >= remaining
                  /\ secs * 1000 < remaining + 1000
                  /\ requests' = requests
                  /\ banned' = banned]_vars

\* a check made 59999 ms before the end of a ban has just been denied with
\* retryAfter 60, and the identity's five timestamps are still recorded
C25_Witness ==
    /\ ddosResult.ip = "1.2.3.4"
    /\ ddosResult.reason = ReasonBanned
    /\ ddosResult.retryAfter = 60
    /\ ddosResult.at = now
    /\ "1.2.3.4" \in DOMAIN banned /\ banned["1.2.3.4"] - now = 59999
    /\ Len(requests["1.2.3.4"]) = maxRequests

(***************************************************************************)
(* Claims about AdaptiveProtection                                         *)
(***************************************************************************)
\* C3: threatLevel is an integer between 0 and 10 in every reachable state,
\* whatever metrics were recorded and however often adjust() ran.
C3_LevelInRange == threatLevel \in 0..10

\* the level has reached 10 and a tally that would raise it again is recorded
C3_Witness ==
    /\ threatLevel = 10
    /\ metrics.totalRequests > 0
    /\ 10 * metrics.blockedRequests > metrics.totalRequests

\* C13: a check treats an identity as banned (isBanned holds, the check is
\* denied with the ban reason) only while bannedUntil is strictly greater
\* than now; once now has reached bannedUntil the check goes on to the rate
\* counting.
C13_Original ==
    [][\A ip \in DDoSIPs \ whitelist :
          (DDoSCheck(ip) /\ ip \in DOMAIN banned) =>
              /\ isBanned(ip) <=> banned[ip] > now
              /\ ddosResult'.reason = ReasonBanned <=> banned[ip] > now]_vars

\* C12: threatLevel changes only in a tick of adjust(), and then by exactly
\* one; a request handled by stealthProtectionMiddleware (with its
\* recordMetric calls) leaves it as it is.
C12_OnlyTicks ==
    [][/\ threatLevel' - threatLevel \in {-1, 0, 1}
       /\ threatLevel' /= threatLevel =>
             (adjustDue' = adjustDue + adjustInterval /\ sent' = sent)
       /\ sent' /= sent => threatLevel' = threatLevel]_vars

\* ticks have raised the level and lowered it again, and requests have been
\* recorded since
C12_Witness ==
    /\ script.methods = <<"PATCH", "GET", "GET", "GET">>
    /\ adjustDue = 3 * adjustInterval
    /\ threatLevel = 0
    /\ metrics.totalRequests > 0

\* C11: the limit a check enforces is getAdjustedLimits().requests for the
\* current threat level: an identity that is not banned is allowed exactly
\* while fewer requests of it lie in the window than that limit (100, 50, 30
\* or 10 by protection class).
C11_Original ==
    [][\A ip \in DDoSIPs \ whitelist :
          (DDoSCheck(ip) /\ ~C1_BanActive(ip)) =>
              (ddosResult'.allowed <=> C1_InWindow(ip) < getAdjustedLimits.requests)]_vars

(***************************************************************************)
(* Claims about the identity extractors                                    *)
(***************************************************************************)
\* the text of x before its first comma, without the blanks around it
C5_FirstEntry(x) ==
    LET commas == {i \in 1..Len(x) : x[i] = ","}
        stop   == IF commas = {} THEN Len(x) + 1
                  ELSE CHOOSE i \in commas : \A j \in commas : i <= j
        solid  == {i \in 1..(stop - 1) : x[i] /= " "}
    IN  IF solid = {} THEN <<>>
        ELSE SubSeq(x, CHOOSE i \in solid : \A j \in solid : i <= j,
                       CHOOSE i \in solid : \A j \in solid : i >= j)

\* the first non-empty value of: the trimmed first entry of x-forwarded-for,
\* x-real-ip, the connection's remote address, "unknown"
C5_Precedence(r) ==
    IF r.xff.def /\ C5_FirstEntry(r.xff.s) /= <<>> THEN Str(C5_FirstEntry(r.xff.s))
    ELSE IF r.realIp.def /\ r.realIp.s /= <<>> THEN r.realIp
    ELSE IF r.remote.def /\ r.remote.s /= <<>> THEN r.remote
    ELSE Str(<<"unknown">>)

\* C5 as stated: every identity extractor returns the value of that precedence
C5_Original ==
    ident.done =>
        /\ ident.getIP = C5_Precedence(req)
        /\ ident.getIPSocket = C5_Precedence(req)
        /\ ident.getRealIP = C5_Precedence(req)
        /\ ident.blacklistIP = C5_Precedence(req)

\* C5 amended: the getIP methods of the classifier classes return the value
\* of that precedence, so with both headers present the first entry of
\* x-forwarded-for wins.  VercelSecurity.getRealIP does not: it returns
\* x-real-ip whenever that header is non-empty, else the untrimmed first
\* entry of x-forwarded-for, and undefined instead of "unknown".
\* ipBlacklistCheck reads no header: it uses req.ip, else the remote address.
C5_Extractors ==
    ident.done =>
        /\ ident.getIP = C5_Precedence(req)
        /\ ident.getIPSocket = C5_Precedence(req)
        /\ (req.realIp.def /\ req.realIp.s /= <<>>) => ident.getRealIP = req.realIp
        /\ ident.getRealIP /= Str(<<"unknown">>)
        /\ \/ ident.blacklistIP = req.remote
           \/ ~ident.blacklistIP.def
           \/ ident.blacklistIP.s = <<>>

\* both headers are present, and getIP returned the forwarded-for entry while
\* getRealIP returned x-real-ip
C5_Witness ==
    /\ ident.done
    /\ req.xff = Str(<<" ", "1.1.1.1", " ", ",", " ", "2.2.2.2">>)
    /\ req.realIp = Str(<<"9.9.9.9">>)
    /\ ident.getIP = Str(<<"1.1.1.1">>)
    /\ ident.getRealIP = Str(<<"9.9.9.9">>)

(***************************************************************************)
(* Claims about PayloadScanner                                             *)
(***************************************************************************)
\* C8 as stated: a scan of an input made less than cacheTimeout after the
\* previous scan of the same input returns the result that scan returned.
C8_Original ==
    [][\A input \in ScanInputs, type \in ScanTypes :
          (/\ Scan(input, type)
           /\ input \in DOMAIN lastScan
           /\ lastScan[input].type = type
           /\ now - lastScan[input].time < cacheTimeout)
          => lastScan'[input].result = lastScan[input].result]_vars

\* C9 as stated: every scan of "hello world" returns malicious = false, and
\* every scan of a string that contains <script>alert(1)</script> returns
\* malicious = true with a finding of the xss category.
C9_Original ==
    \A input \in DOMAIN lastScan :
        /\ input = Clean => ~lastScan[input].result.malicious
        /\ input \in {Script, Padded} =>
               /\ lastScan[input].result.malicious
               /\ \E i \in 1..Len(lastScan[input].result.findings) :
                      lastScan[input].result.findings[i].type = "xss"

(***************************************************************************)
(* Claims about the request classifiers                                    *)
(***************************************************************************)
\* the last n elements of a list, all of it when it is shorter
C2_Latest(full, n) == SubSeq(full, Len(full) - Min(n, Len(full)) + 1, Len(full))

\* C2 as stated: per identity, a stored history never holds more than 100
\* records, and once the identity was observed more than 100 times it holds
\* exactly the 100 most recent observations of the identity, in order.
C2_Original ==
    /\ \A ip \in DOMAIN profiles :
         /\ Len(profiles[ip].requests) <= 100
         /\ Len(analyzeLog[ip]) > 100
              => profiles[ip].requests = C2_Latest(analyzeLog[ip], 100)
    /\ \A fp \in DOMAIN fingerprints :
         /\ Len(fingerprints[fp].requests) <= 100
         /\ Len(trackLog[fingerprints[fp].ip]) > 100
              => fingerprints[fp].requests = C2_Latest(trackLog[fingerprints[fp].ip], 100)

\* C2: a stored history never holds more than 100 records and always holds
\* the most recent records it was given, in order: all of them up to 100,
\* exactly the last 100 after that.  A BehaviorAnalyzer history belongs to
\* an identity; a RequestFingerprint history belongs to a fingerprint
\* (user-agent, accept-language, accept-encoding, address) and counts from
\* the creation of its record.
C2_RecentHistory ==
    /\ \A ip \in DOMAIN profiles :
         /\ Len(profiles[ip].requests) <= 100
         /\ profiles[ip].requests = C2_Latest(analyzeLog[ip], 100)
    /\ \A fp \in DOMAIN fingerprints :
         /\ Len(fingerprints[fp].requests) <= 100
         /\ fingerprints[fp].requests = C2_Latest(fpLog[fp], 100)

\* both stores hold a history that was given more than 100 records
C2_Witness ==
    /\ \E ip \in DOMAIN profiles :
         Len(analyzeLog[ip]) > 100 /\ Len(profiles[ip].requests) = 100
    /\ \E fp \in DOMAIN fingerprints :
         Len(fpLog[fp]) > 100 /\ Len(fingerprints[fp].requests) = 100

\* the batch of C6: "1.2.3.4", 25 distinct paths, the five methods in turn,
\* never an accept-language header
C6_Batch(sc) ==
    /\ sc.ips = <<A1>>
    /\ sc.nPaths = 25
    /\ sc.kinds = <<"page">>
    /\ sc.methods = Methods
    /\ sc.langs = <<FALSE>>

C6_Verdict ==
    /\ stealthResult.analysis.called
    /\ stealthResult.analysis.suspicious
    /\ stealthResult.analysis.score >= 3
    /\ advResult.blocked
    /\ advResult.status = "403"

C7_Client(sc) ==
    /\ sc.ips = <<A5>>
    /\ sc.uas = <<Browser>>
    /\ sc.accepts = <<TRUE>> /\ sc.langs = <<TRUE>>
    /\ sc.kinds = <<"page">>
    /\ sc.methods = <<"GET">>
    /\ sc.host /\ ~sc.forwardedHost /\ sc.bodyDepth = 0
    /\ 2 * sc.gap = 10000

\* C7: each of the client's first three requests is passed on by both
\* middlewares, assess() returns no reasons, and the request adds 1 to
\* totalRequests and nothing to blockedRequests and suspiciousRequests.
C7_WellFormedPasses ==
    [][(Deliver /\ C7_Client(script) /\ sent < 3) =>
          /\ stealthResult'.n = sent + 1 /\ stealthResult'.status = "next"
          /\ advResult'.n = sent + 1 /\ advResult'.status = "next"
          /\ advResult'.reasons = <<>> /\ advResult'.score = 0
          /\ metrics' = [metrics EXCEPT !.totalRequests = @ + 1]
          /\ threatLevel' = threatLevel]_vars

\* the third request has been handled and no tick of adjust() came between
C7_Witness ==
    /\ C7_Client(script) /\ sent = 3
    /\ stealthResult.n = 3 /\ stealthResult.status = "next"
    /\ metrics = [totalRequests |-> 3, blockedRequests |-> 0, suspiciousRequests |-> 0]

\* C10: assess() returns blocked = true exactly when the identity's
\* cumulative score, threats[ip].score, exceeds 10.
C10_Original ==
    advResult.n > 0 => (advResult.blocked <=> getThreatLevel(advResult.ip) > 10)


(***************************************************************************)
(* Claims about the route limiters and the blacklist                       *)
(***************************************************************************)

\* C14: an identity that exceeds the limit of the login or registration
\* limiter gets a ban record that lasts the configured ban duration (1 hour):
\* when a limiter refuses a request for exceeding its limit, the identity is
\* afterwards on the blacklist with a removal timer one ban duration ahead, or
\* banned by the DDoS limiter until one ban duration ahead.
C14_Original ==
    [][\A l \in Limiters, ip \in AuthIPs :
          (\E ok \in BOOLEAN : RateLimit(l, ip, ok) /\ authResult'.status = 429) =>
              \/ /\ ip \in ipBlacklist'
                 /\ [ip |-> ip, due |-> now + banDuration] \in blacklistTimers'
              \/ /\ ip \in DOMAIN banned'
                 /\ banned'[ip] = now + banDuration]_vars


(***************************************************************************)
(* Claims about requests without headers                                   *)
(***************************************************************************)

\* C15: a request without user-agent, accept, accept-language and forwarding
\* headers and without body, query and params makes every classifier entry
\* point finish with a response or next(), never with an exception; its
\* suspicious look shows in the verdict: stealthProtectionMiddleware scores it
\* suspicious, advancedSecurityMiddleware scores the missing headers, and
\* botDetectionMiddleware answers it with a refusal.
C15_Verdict ==
    /\ verdict.outcome \in {"next", "response"}
    /\ (verdict.mw = "stealth" /\ stealthResult.analysis.called)
          => stealthResult.analysis.suspicious
    /\ verdict.mw = "advanced" => advResult.score >= 3
    /\ verdict.mw = "bot" => verdict.outcome = "response"

C15_Witness ==
    /\ verdict.mw = "scan"
    /\ verdict.outcome = "next"
    /\ stealthResult.status = "next"
    /\ stealthResult.analysis.suspicious


(***************************************************************************)
(* Claims about the chat server                                            *)
(***************************************************************************)

\* C16: a message blocked by the bad-word filter is deleted 24 hours after it
\* was sent while the server keeps running: when the deletion timer that
\* send-message started for a blocked message runs, the message is no longer
\* in the store afterwards.
C16_Original ==
    [][\A tm \in msgTimers :
          (MsgTimer(tm) /\ ~tm.awaits /\ foundBlocked(getMessageById(tm.id)))
              => tm.id \notin DOMAIN messages']_vars


\* C17: a recall request changes a message only when the message exists and
\* at most 2 minutes (120000 ms) have passed since its created_at; then the
\* stored message gets the placeholder content, image = null, voice = null and
\* is_recalled = true and nothing else in the store changes; a recall request
\* for a missing message or an older one is answered with an error and leaves
\* the store unchanged.
C17_Recall ==
    [][\A id \in MessageIds :
          RecallMessage(id) =>
              IF id \in DOMAIN messages /\ now - messages[id].created_at <= 120000
              THEN /\ chatResult'.status = 200
                   /\ DOMAIN messages' = DOMAIN messages
                   /\ messages'[id].content = Recalled
                   /\ messages'[id].image = Null
                   /\ messages'[id].voice = Null
                   /\ messages'[id].is_recalled
                   /\ messages'[id].id = id
                   /\ messages'[id].user_id = messages[id].user_id
                   /\ messages'[id].created_at = messages[id].created_at
                   /\ messages'[id].is_blocked = messages[id].is_blocked
                   /\ \A k \in DOMAIN messages \ {id} : messages'[k] = messages[k]
              ELSE /\ chatResult'.status \in {400, 404}
                   /\ messages' = messages]_vars

C17_Witness ==
    /\ chatResult.route = "recall"
    /\ chatResult.status = 200
    /\ \E id \in DOMAIN messages :
          /\ messages[id].is_recalled
          /\ messages[id].image = Null
          /\ messages[id].recalled_at - messages[id].created_at = 120000


\* C18: Channel105 is reachable only with its password: a reply that
\* authorizes a subscription to presence-Channel105, or that hands out
\* messages of Channel105, goes to a user id that is in the member list, and
\* the member list grows only by verify-password called with the current
\* password and shrinks only by the admin's member removal.
C18_Original ==
    [][/\ (/\ chatResult'.route = "auth"
           /\ chatResult'.channel = "presence-Channel105"
           /\ chatResult'.status = 200) => parseInt(chatResult'.userId) \in members'
       /\ (/\ chatResult'.route = "messages"
           /\ chatResult'.channel = "Channel105"
           /\ chatResult'.ids /= {}) => parseInt(chatResult'.userId) \in members'
       /\ ~(members' \subseteq members) =>
              /\ chatResult'.route = "verify"
              /\ chatResult'.password = password
       /\ ~(members \subseteq members') => chatResult'.route = "remove"]_vars

\* the same without the message list: what holds of /api/pusher/auth and of
\* the member list
C18_AuthAndMembers ==
    [][/\ (/\ chatResult'.route = "auth"
           /\ chatResult'.channel = "presence-Channel105"
           /\ chatResult'.status = 200) => parseInt(chatResult'.userId) \in members'
       /\ ~(members' \subseteq members) =>
              /\ chatResult'.route = "verify"
              /\ chatResult'.password = password
       /\ ~(members \subseteq members') => chatResult'.route = "remove"]_vars


(***************************************************************************)
(* Claims about the tally and the sweep                                    *)
(***************************************************************************)

C20_Original ==
    [][CleanupTimer =>
          \A fp \in DOMAIN fingerprints :
              (\E i \in 1..Len(fingerprints[fp].requests) :
                  now' - fingerprints[fp].requests[i].timestamp < 3600000)
              => /\ fp \in DOMAIN fingerprints'
                 /\ fingerprints'[fp] = fingerprints[fp]]_vars


(***************************************************************************)
(* Claims about BehaviorAnalyzer.analyze                                   *)
(***************************************************************************)
\* the suspicion predicates that hold on a stored profile, counted one by one
C22_Count(p) ==
    LET reqs == p.requests
        n == Len(reqs)
    IN  Cardinality({ k \in {"scanning", "methodProbing", "botPattern",
                             "missingHeaders", "timePattern"} :
          \/ k = "scanning" /\ Cardinality({ reqs[i].path : i \in 1..n }) > 20 /\ n > 30
          \/ k = "methodProbing" /\ Cardinality({ reqs[i].method : i \in 1..n }) > 4
          \/ k = "botPattern" /\ (\/ p.userAgent = NoUA
                                  \/ uaLength(p.userAgent) < 10
                                  \/ uaLooksLikeBot(p.userAgent))
          \/ k = "missingHeaders" /\ ~(p.hasAccept /\ p.hasAcceptLanguage)
          \/ k = "timePattern" /\ n >= 5
                /\ reqs[n].time - reqs[1].time < 100 * (n - 1) })

\* C22: analyze returns a score equal to the number of suspicion predicates
\* that hold on the identity's profile after the current request has been
\* appended, suspicious is true exactly when the score is at least 2, the
\* same score is stored in profile.score, and the header flags of a profile
\* are those of the identity's first observed request: no later request
\* changes them.
C22_Score ==
    [][(Deliver /\ stealthResult'.analysis.called) =>
          LET r == RequestOf(script, sent + 1)
              ip == getIP(r)
              p == profiles'[ip]
              flags(q) == <<q.userAgent, q.hasAccept, q.hasAcceptLanguage>>
          IN  /\ p.requests[Len(p.requests)] =
                    [time |-> now', path |-> r.path, method |-> r.method]
              /\ stealthResult'.analysis.score = C22_Count(p)
              /\ stealthResult'.analysis.suspicious <=> C22_Count(p) >= 2
              /\ p.score = C22_Count(p)
              /\ flags(p) = IF ip \in DOMAIN profiles THEN flags(profiles[ip])
                            ELSE <<r.ua, r.accept, r.lang>>
              /\ \A other \in DOMAIN profiles \ {ip} : profiles'[other] = profiles[other]]_vars

\* a scanner that alternates two user-agents has just been scored 3 on a
\* request whose user-agent is not the one its profile holds
C22_Witness ==
    /\ script = [Scanner EXCEPT !.uas = <<Browser, Browser2>>]
    /\ sent > 30
    /\ stealthResult.n = sent
    /\ stealthResult.analysis.called
    /\ stealthResult.analysis.score = 3
    /\ stealthResult.analysis.suspicious
    /\ profiles[A1].userAgent = Browser
    /\ RequestOf(script, sent).ua = Browser2


\* C23: the scan-breadth predicate of the profiler holds exactly when the
\* identity's window contains at least 20 distinct paths and more than 30
\* requests: it holds for exactly 20 distinct paths and 31 requests, and it
\* does not hold with 30 or fewer requests however many paths are distinct.
C23_Original ==
    \A ip \in DOMAIN profiles :
        scanning(profiles[ip]) <=>
            /\ Cardinality(PathsOf(profiles[ip].requests)) >= 20
            /\ Len(profiles[ip].requests) > 30


(***************************************************************************)
(* Claims about the IP blacklist                                           *)
(***************************************************************************)
\* C26: an IP put on the blacklist by addToBlacklist(ip, d) is refused by
\* ipBlacklistCheck for at least d after the most recent addToBlacklist call
\* for it, also when it is added again while an earlier timer for it is
\* pending: a malicious tool detected again 23 hours after the first
\* detection keeps the IP blocked for a further 24 hours.
C26_Original ==
    [][\A ip \in BlacklistIPs :
          (/\ IpBlacklistCheck(ip)
           /\ \E tm \in blacklistTimers : tm.ip = ip /\ now < tm.due) =>
              authResult'.status = 403]_vars


(***************************************************************************)
(* Claims about scans of one category                                      *)
(***************************************************************************)
\* what a scanner that has scanned nothing yet finds in text for one category
C27_Fresh(text, type) ==
    LET hits == SelectSeq(AllPatterns,
                    LAMBDA pat : pat[1] = type /\ MatchSpans(pat, text) /= <<>>)
        findings == [i \in 1..Len(hits) |-> [type |-> hits[i][1], pattern |-> hits[i]]]
    IN  [malicious |-> Len(findings) > 0, findings |-> findings,
         confidence |-> calculateConfidence(findings), bare |-> FALSE]

\* C27: scan(input, type) with a specific category returns only findings of
\* that category and the same result as a fresh scan of the input for that
\* category, whatever earlier scans of the input were made with another
\* type (the default 'all' included) within the cache TTL.
C27_Original ==
    [][\A input \in TypedInputs, type \in TypedScanTypes \ {"all"} :
          Scan(input, type) =>
              LET result == lastScan'[input].result
              IN  /\ \A i \in 1..Len(result.findings) : result.findings[i].type = type
                  /\ result = C27_Fresh(input, type)]_vars


=============================================================================
